---- MODULE Spec2Model ----
(***************************************************************************)
(* A model of the acquisition pipeline of src/src/compoundingMachine.ts:   *)
(* runCompoundingMachine drives mapWithConcurrency over the ticker list;   *)
(* each callback runs StockDataFetcher.fetchTickerSnapshot (cache lookup,  *)
(* fetchWithRetry / fetchFromApi on a miss, cache write) and then          *)
(* evaluates the snapshot.                                                 *)
(*                                                                         *)
(* Scheduling is that of the JavaScript event loop.  A step that follows   *)
(* an await on an already settled promise (a microtask) runs before any    *)
(* timer or network completion (a macrotask) is delivered; steps of        *)
(* different runners that are pending in the same drain are interleaved    *)
(* in every order.                                                         *)
(***************************************************************************)
EXTENDS Integers, Sequences, FiniteSets, TLC

\* ---------------------------------------------------------------- bounds
MaxTickers == 3          \* longest ticker list explored
MaxConcurrency == 2      \* largest options.concurrency explored
TtlMs == 1               \* the cache TTL (ttlDays * 24h), in clock units
MaxTicks == 1            \* how far the clock advances during a run

MaxRetriesPool == 1      \* largest maxRetries explored with concurrent runners

\* ------------------------------------------------------ program constants
DefaultMaxRetries == 4   \* StockDataFetcher constructor default
CurrentSchema == 1       \* schemaVersion written by fetchFromApi

Tickers == {"A", "B"}
StartNow == TtlMs + 1
MaxNow == StartNow + MaxTicks

\* A row of table compounder_data: kind is what payload_json holds
\* ("ok": a snapshot of the current schema, "old": a snapshot of another
\* schema version, "bad": text JSON.parse rejects), at is fetched_at, by is
\* the callback index that wrote it (-1: present before the run).
NoRecord == [kind |-> "none", at |-> 0, by |-> -1]
EmptyTable == [t \in Tickers |-> NoRecord]
\* What the file may hold before the run: per payload kind, a record exactly
\* TtlMs old and one a clock unit older.
InitialRecords ==
  {NoRecord} \cup
  [kind : {"ok", "old", "bad"}, at : {StartNow - TtlMs - 1, StartNow - TtlMs}, by : {-1}]

\* The subset explored with concurrent runners: no record, a fresh snapshot,
\* a fresh unparsable payload.
PoolRecords ==
  {NoRecord,
   [kind |-> "ok", at |-> StartNow - TtlMs, by |-> -1],
   [kind |-> "bad", at |-> StartNow - TtlMs, by |-> -1]}

NoSnapshot == [ticker |-> "-", schemaVersion |-> 0, by |-> -1]

VARIABLES
  input,        \* the argument of the pure function under analysis (<<>>: none)
  output,       \* its return value (<<>>: not called)
  topN,         \* options.topN
  items,        \* selectedTickers
  concurrency,  \* options.concurrency
  showDiag,     \* options.showRejected || options.tickers
  maxRetries,   \* StockDataFetcher.maxRetries
  now,          \* Date.now()
  file,         \* the backing store at dbPath
  db,           \* the in-memory table of CompounderDataCache (empty when not open)
  dbOpen,       \* this.db !== null
  initialized,  \* CompounderDataCache.initialized
  saves,        \* number of writeFileSync calls so far
  lastSet,      \* per ticker, the record of the last executed set
  nextIndex,    \* the shared cursor of mapWithConcurrency
  runner,       \* the runners: [pc, cur]
  pool,         \* the promise of Promise.all(runners)
  cb,           \* per index, the callback invocation
  rows,         \* passing rows, in push order
  diagnostics,  \* evaluated rows, in push order
  phase,        \* position of runCompoundingMachine / main
  results,      \* topRows
  qualified,    \* rows.length reported
  scanned       \* selectedTickers.length reported

\* The variables of a run of runCompoundingMachine.
runVars == <<topN, items, concurrency, showDiag, maxRetries, now, file, db, dbOpen,
             initialized, saves, lastSet, nextIndex, runner, pool, cb, rows,
             diagnostics, phase, results, qualified, scanned>>

vars == <<input, output, topN,
          items, concurrency, showDiag, maxRetries, now, file, db, dbOpen, initialized, saves,
          lastSet, nextIndex, runner, pool, cb, rows, diagnostics, phase,
          results, qualified, scanned>>

N == Len(items)

\* Math.max(1, concurrency)
safeConcurrency == IF concurrency < 1 THEN 1 ELSE concurrency

Runners == 1..safeConcurrency

\* The callback of index N is never invoked by the code: the slot is there so
\* that an invocation outside 0..N-1 is a state and not an error.
Slots == 0..N

ItemAt(i) == IF i < N THEN items[i + 1] ELSE "-"

IdleCb ==
  [pc |-> "idle", item |-> "-", calls |-> 0, attempt |-> 0, tries |-> 0,
   fails |-> 0, inflight |-> FALSE, lookup |-> "none", fetched |-> "none",
   snap |-> NoSnapshot]

\* worker(items[current], current): the callback starts and reaches the first
\* await of cache.get (ensureInitialized).
Invoke(c, i) ==
  [c EXCEPT !.pc = "get", !.item = ItemAt(i), !.calls = @ + 1, !.attempt = 0,
            !.tries = 0, !.fails = 0, !.inflight = FALSE, !.lookup = "none",
            !.fetched = "none", !.snap = NoSnapshot]

\* The loop test with <= in place of <.
HasNextInclusive(idx) == idx <= N

\* while (nextIndex < items.length)
HasNext(idx) == idx < N

--------------------------------------------------------------------------
\* The state after new StockDataFetcher(dbPath, ttlDays) and before
\* mapWithConcurrency is called, for the given inputs.
Setup(lengths, workerCounts, records, retries, diag, limits) ==
  /\ topN \in limits
  /\ items \in UNION {[1..n -> Tickers] : n \in lengths}
  /\ concurrency \in workerCounts
  /\ showDiag \in diag
  /\ maxRetries \in retries
  /\ now = StartNow
  /\ file \in [Tickers -> records]
  /\ db = EmptyTable
  /\ dbOpen = FALSE
  /\ initialized = FALSE
  /\ saves = 0
  /\ lastSet = EmptyTable
  /\ nextIndex = 0
  /\ runner = [r \in Runners |-> [pc |-> "new", cur |-> -1]]
  /\ pool = "none"
  /\ cb = [i \in Slots |-> IdleCb]
  /\ rows = <<>>
  /\ diagnostics = <<>>
  /\ phase = "init"
  /\ results = <<>>
  /\ qualified = 0
  /\ scanned = 0

\* What the upstream's fundamentals of each ticker lead to: the verdict of
\* evaluateCarlsonFilters and the composite score of buildRow.
Market ==
  [A |-> [passed |-> TRUE, carlsonQualityScore |-> 60],
   B |-> [passed |-> FALSE, carlsonQualityScore |-> 40]]

\* Concurrent runners over lists of up to MaxTickers tickers.
Init ==
  /\ input = Market
  /\ output = <<>>
  /\ Setup(0..MaxTickers, 0..MaxConcurrency, PoolRecords, {MaxRetriesPool}, {TRUE}, {2})

\* One runner, the constructor's maxRetries, every kind and age of record.
InitFetcher ==
  /\ input = Market
  /\ output = <<>>
  /\ Setup(0..MaxTickers, {1}, InitialRecords, {DefaultMaxRetries}, BOOLEAN, {2})

--------------------------------------------------------------------------
\* A runner that does not wait for the callback it started.
CompletedOrNot(i) == TRUE

\* await worker(items[current], current) resumes when the callback's promise
\* is fulfilled.
Completed(i) == cb[i].pc = "done"

RunnerReady(r) ==
  /\ runner[r].pc = "await"
  /\ (Completed(runner[r].cur) \/ cb[runner[r].cur].pc = "threw")

SomeFailed == \E r \in Runners : runner[r].pc = "failed"

\* A runner's promise is fulfilled when the runner returns.
RunnerFulfilled(r) == runner[r].pc = "done"

\* Promise.any-like settling: fulfilled as soon as one runner has returned.
PromiseAny ==
  IF SomeFailed THEN "rejected"
  ELSE IF \E r \in Runners : RunnerFulfilled(r) THEN "fulfilled"
  ELSE "pending"

\* A pool promise that counts fulfilled runners only: a runner that rejects
\* leaves it pending.
PromiseAllFulfilled ==
  IF \A r \in Runners : RunnerFulfilled(r) THEN "fulfilled" ELSE "pending"

\* Promise.all(runners): rejected with the first rejection, fulfilled when
\* every runner has returned.
PromiseAll ==
  IF SomeFailed THEN "rejected"
  ELSE IF \A r \in Runners : RunnerFulfilled(r) THEN "fulfilled"
  ELSE "pending"

\* The event loop: a continuation whose await is already settled runs before
\* any timer or network completion is delivered.
MicroPending ==
  \/ phase \in {"init", "closed"}
  \/ phase = "pool" /\ pool # "pending"
  \/ phase = "pool" /\ pool = "pending" /\ PromiseAll # "pending"
  \/ \E r \in Runners : RunnerReady(r)
  \/ \E i \in Slots : cb[i].pc \in {"set", "eval", "skip"}
  \/ \E i \in Slots : cb[i].pc = "get" /\ initialized

Alive == phase # "exited"

--------------------------------------------------------------------------
\* CompounderDataCache

\* get with the record expiring at age = ttl (>= in place of >).
getExpiresAtTtl(t) ==
  IF ~dbOpen THEN [tag |-> "null", snap |-> NoSnapshot]
  ELSE IF db[t].kind = "none" THEN [tag |-> "null", snap |-> NoSnapshot]
  ELSE IF now - db[t].at >= TtlMs THEN [tag |-> "null", snap |-> NoSnapshot]
  ELSE IF db[t].kind = "bad" THEN [tag |-> "throw", snap |-> NoSnapshot]
  ELSE [tag |-> "value",
        snap |-> [ticker |-> t,
                  schemaVersion |-> IF db[t].kind = "ok" THEN CurrentSchema ELSE 0,
                  by |-> db[t].by]]

\* get(ticker), after ensureInitialized: null, the parsed payload, or the
\* SyntaxError of JSON.parse (the try has a finally and no catch).
get(t) ==
  IF ~dbOpen THEN [tag |-> "null", snap |-> NoSnapshot]
  ELSE IF db[t].kind = "none" THEN [tag |-> "null", snap |-> NoSnapshot]
  ELSE IF now - db[t].at > TtlMs THEN [tag |-> "null", snap |-> NoSnapshot]
  ELSE IF db[t].kind = "bad" THEN [tag |-> "throw", snap |-> NoSnapshot]
  ELSE [tag |-> "value",
        snap |-> [ticker |-> t,
                  schemaVersion |-> IF db[t].kind = "ok" THEN CurrentSchema ELSE 0,
                  by |-> db[t].by]]

\* save(): db.export() written over the file.
save(table) == table

\* An upsert that keeps the fetched_at of a record it replaces.
upsertKeepTime(table, t, i) ==
  [table EXCEPT ![t] = [kind |-> "ok", at |-> IF @.kind = "none" THEN now ELSE @.at,
                        by |-> i]]

\* INSERT OR REPLACE of set(ticker, snapshot) at new Date()
upsert(table, t, i) == [table EXCEPT ![t] = [kind |-> "ok", at |-> now, by |-> i]]

\* init(): the table is loaded from the file when the SQL module is ready.
InitDone ==
  /\ Alive
  /\ ~MicroPending
  /\ ~initialized
  /\ initialized' = TRUE
  /\ db' = file
  /\ dbOpen' = TRUE
  /\ UNCHANGED <<input, output, topN,
                 items, concurrency, showDiag, maxRetries, now, file, saves, lastSet, nextIndex,
                 runner, pool, cb, rows, diagnostics, phase, results, qualified,
                 scanned>>

--------------------------------------------------------------------------
\* mapWithConcurrency

\* Array.from runs every runner, in order, up to its first await: runner r
\* claims index r-1 while the cursor is below items.length.
StartPool ==
  /\ phase = "init"
  /\ phase' = "pool"
  /\ pool' = "pending"
  /\ LET claims(r) == \A j \in 0..(r - 1) : HasNext(j)
         k == Cardinality({r \in Runners : claims(r)})
     IN /\ nextIndex' = k
        /\ runner' = [r \in Runners |->
                        IF claims(r) THEN [pc |-> "await", cur |-> r - 1]
                        ELSE [pc |-> "done", cur |-> -1]]
        /\ cb' = [i \in Slots |-> IF i < k THEN Invoke(cb[i], i) ELSE cb[i]]
  /\ UNCHANGED <<input, output, topN,
                 items, concurrency, showDiag, maxRetries, now, file, db, dbOpen, initialized,
                 saves, lastSet, rows, diagnostics, results, qualified, scanned>>

\* The awaited callback has completed: the runner tests the cursor again, and
\* claims the next index (const current = nextIndex++) or returns.
RunnerStep(r) ==
  /\ Alive
  /\ runner[r].pc = "await"
  /\ Completed(runner[r].cur)
  /\ IF HasNext(nextIndex)
     THEN /\ runner' = [runner EXCEPT ![r] = [pc |-> "await", cur |-> nextIndex]]
          /\ cb' = [cb EXCEPT ![nextIndex] = Invoke(@, nextIndex)]
          /\ nextIndex' = nextIndex + 1
     ELSE /\ runner' = [runner EXCEPT ![r] = [pc |-> "done", cur |-> -1]]
          /\ UNCHANGED <<cb, nextIndex>>
  /\ UNCHANGED <<input, output, topN,
                 items, concurrency, showDiag, maxRetries, now, file, db, dbOpen, initialized,
                 saves, lastSet, pool, rows, diagnostics, phase, results, qualified,
                 scanned>>

\* The awaited callback rejected: the runner's promise rejects.
RunnerFail(r) ==
  /\ Alive
  /\ runner[r].pc = "await"
  /\ cb[runner[r].cur].pc = "threw"
  /\ runner' = [runner EXCEPT ![r].pc = "failed"]
  /\ UNCHANGED <<input, output, topN,
                 items, concurrency, showDiag, maxRetries, now, file, db, dbOpen, initialized,
                 saves, lastSet, nextIndex, pool, cb, rows, diagnostics, phase,
                 results, qualified, scanned>>

PoolSettle ==
  /\ Alive
  /\ phase = "pool"
  /\ pool = "pending"
  /\ PromiseAll # "pending"
  /\ pool' = PromiseAll
  /\ UNCHANGED <<input, output, topN,
                 items, concurrency, showDiag, maxRetries, now, file, db, dbOpen, initialized,
                 saves, lastSet, nextIndex, runner, cb, rows, diagnostics, phase,
                 results, qualified, scanned>>

--------------------------------------------------------------------------
\* StockDataFetcher

\* fetchFromApi up to its first await: the six request promises are created
\* (quoteSummary, four fundamentalsTimeSeries, historical), then
\* await sleep(requestDelayMs).
IssueRequests(c) ==
  [c EXCEPT !.pc = "delay", !.inflight = TRUE, !.tries = @ + 1]

\* cached && cached.schemaVersion === 1
IsHit(res) == res.tag = "value" /\ res.snap.schemaVersion = CurrentSchema

\* fetchTickerSnapshot after await cache.get: a hit returns the cached
\* snapshot; otherwise fetchWithRetry starts its first attempt; an exception
\* of get rejects the callback.
CacheGet(i) ==
  /\ Alive
  /\ cb[i].pc = "get"
  /\ initialized
  /\ LET res == get(cb[i].item)
     IN cb' = [cb EXCEPT ![i] =
                 IF res.tag = "throw"
                 THEN [@ EXCEPT !.pc = "threw", !.lookup = "threw"]
                 ELSE IF IsHit(res)
                 THEN [@ EXCEPT !.pc = "eval", !.lookup = "hit", !.snap = res.snap]
                 ELSE IssueRequests([@ EXCEPT !.lookup = "miss", !.attempt = 0])]
  /\ UNCHANGED <<input, output, topN,
                 items, concurrency, showDiag, maxRetries, now, file, db, dbOpen, initialized,
                 saves, lastSet, nextIndex, runner, pool, rows, diagnostics, phase,
                 results, qualified, scanned>>

\* The last-attempt test one attempt early.
IsLastEarly(attempt) == attempt >= maxRetries - 1

\* const isLast = attempt >= this.maxRetries
IsLast(attempt) == attempt >= maxRetries

\* catch of fetchWithRetry: null after the last attempt, else a backoff sleep.
AfterFailure(c) ==
  IF IsLast(c.attempt)
  THEN [c EXCEPT !.pc = "skip", !.fetched = "null"]
  ELSE [c EXCEPT !.pc = "backoff"]

\* sleep(requestDelayMs) has elapsed and Promise.all of the request batch has
\* settled.  All fulfilled: fetchFromApi returns the normalized snapshot,
\* fetchWithRetry returns it and fetchTickerSnapshot calls cache.set.  Any
\* rejected: the catch of fetchWithRetry.
UpstreamSettle(i) ==
  /\ Alive
  /\ ~MicroPending
  /\ cb[i].pc = "delay"
  /\ \E ok \in BOOLEAN :
       cb' = [cb EXCEPT ![i] =
                IF ok
                THEN [@ EXCEPT !.pc = "set", !.inflight = FALSE, !.fetched = "snapshot",
                               !.snap = [ticker |-> cb[i].item,
                                         schemaVersion |-> CurrentSchema, by |-> i]]
                ELSE AfterFailure([@ EXCEPT !.inflight = FALSE, !.fails = @ + 1])]
  /\ UNCHANGED <<input, output, topN,
                 items, concurrency, showDiag, maxRetries, now, file, db, dbOpen, initialized,
                 saves, lastSet, nextIndex, runner, pool, rows, diagnostics, phase,
                 results, qualified, scanned>>

\* The backoff sleep has elapsed: attempt++, the while test, fetchFromApi again.
BackoffElapsed(i) ==
  /\ Alive
  /\ ~MicroPending
  /\ cb[i].pc = "backoff"
  /\ cb' = [cb EXCEPT ![i] =
              IF cb[i].attempt + 1 <= maxRetries
              THEN IssueRequests([@ EXCEPT !.attempt = @ + 1])
              ELSE [@ EXCEPT !.attempt = @ + 1, !.pc = "skip", !.fetched = "null"]]
  /\ UNCHANGED <<input, output, topN,
                 items, concurrency, showDiag, maxRetries, now, file, db, dbOpen, initialized,
                 saves, lastSet, nextIndex, runner, pool, rows, diagnostics, phase,
                 results, qualified, scanned>>

\* cache.set with save() called before the INSERT.
CacheSetSaveFirst(i) ==
  /\ Alive
  /\ cb[i].pc = "set"
  /\ cb' = [cb EXCEPT ![i].pc = "eval"]
  /\ IF dbOpen
     THEN /\ db' = upsert(db, cb[i].item, i)
          /\ file' = save(db)
          /\ saves' = saves + 1
          /\ lastSet' = [lastSet EXCEPT ![cb[i].item] = db'[cb[i].item]]
     ELSE UNCHANGED <<db, file, saves, lastSet>>
  /\ UNCHANGED <<input, output, topN,
                 items, concurrency, showDiag, maxRetries, now, dbOpen, initialized,
                 nextIndex, runner, pool, rows, diagnostics, phase, results, qualified,
                 scanned>>

\* cache.set after ensureInitialized: nothing when the database is closed,
\* else INSERT OR REPLACE and save().
CacheSet(i) ==
  /\ Alive
  /\ cb[i].pc = "set"
  /\ cb' = [cb EXCEPT ![i].pc = "eval"]
  /\ IF dbOpen
     THEN /\ db' = upsert(db, cb[i].item, i)
          /\ file' = save(db')
          /\ saves' = saves + 1
          /\ lastSet' = [lastSet EXCEPT ![cb[i].item] = db'[cb[i].item]]
     ELSE UNCHANGED <<db, file, saves, lastSet>>
  /\ UNCHANGED <<input, output, topN,
                 items, concurrency, showDiag, maxRetries, now, dbOpen, initialized, nextIndex,
                 runner, pool, rows, diagnostics, phase, results, qualified, scanned>>

\* close(): save() and db.close() when the database is open.
Close ==
  /\ Alive
  /\ phase = "pool"
  /\ pool \in {"fulfilled", "rejected"}
  /\ phase' = "closed"
  /\ IF dbOpen
     THEN /\ file' = save(db)
          /\ saves' = saves + 1
          /\ db' = EmptyTable
          /\ dbOpen' = FALSE
     ELSE UNCHANGED <<file, saves, db, dbOpen>>
  /\ UNCHANGED <<input, output, topN,
                 items, concurrency, showDiag, maxRetries, now, initialized, lastSet, nextIndex,
                 runner, pool, cb, rows, diagnostics, results, qualified, scanned>>

--------------------------------------------------------------------------
\* runCompoundingMachine

\* The verdict of evaluateCarlsonFilters and the composite score of buildRow,
\* as functions of the snapshot's fundamentals (here: of its ticker, in the
\* market the run was started in).
Passes(t) == input[t].passed
Score(t) == input[t].carlsonQualityScore

Row(snap) == [ticker |-> snap.ticker, carlsonQualityScore |-> Score(snap.ticker)]

\* The evaluation step with the row stored by assignment to the first slot of
\* the collection instead of rows.push: a row stored before is overwritten.
EvaluateOverwriting(i) ==
  /\ Alive
  /\ cb[i].pc = "eval"
  /\ LET row == Row(cb[i].snap)
         pass == Passes(cb[i].snap.ticker)
     IN /\ rows' = IF pass THEN <<row>> \o (IF rows = <<>> THEN <<>> ELSE Tail(rows)) ELSE rows
        /\ diagnostics' = IF showDiag
                          THEN Append(diagnostics, [row |-> row, pass |-> pass])
                          ELSE diagnostics
  /\ cb' = [cb EXCEPT ![i] = [@ EXCEPT !.pc = "done", !.attempt = 0, !.tries = 0,
                                       !.fails = 0, !.snap = NoSnapshot]]
  /\ UNCHANGED <<input, output, topN,
                 items, concurrency, showDiag, maxRetries, now, file, db, dbOpen, initialized,
                 saves, lastSet, nextIndex, runner, pool, phase, results, qualified,
                 scanned>>

\* The callback after fetchTickerSnapshot returned a snapshot: buildRow,
\* evaluateCarlsonFilters, rows.push, diagnostics.push.
Evaluate(i) ==
  /\ Alive
  /\ cb[i].pc = "eval"
  /\ LET row == Row(cb[i].snap)
         pass == Passes(cb[i].snap.ticker)
     IN /\ rows' = IF pass THEN Append(rows, row) ELSE rows
        /\ diagnostics' = IF showDiag
                          THEN Append(diagnostics, [row |-> row, pass |-> pass])
                          ELSE diagnostics
  /\ cb' = [cb EXCEPT ![i] = [@ EXCEPT !.pc = "done", !.attempt = 0, !.tries = 0,
                                       !.fails = 0, !.snap = NoSnapshot]]
  /\ UNCHANGED <<input, output, topN,
                 items, concurrency, showDiag, maxRetries, now, file, db, dbOpen, initialized,
                 saves, lastSet, nextIndex, runner, pool, phase, results, qualified,
                 scanned>>

\* A callback that rejects when no snapshot was obtained.
SkipRejects(i) ==
  /\ Alive
  /\ cb[i].pc = "skip"
  /\ cb' = [cb EXCEPT ![i].pc = "threw"]
  /\ UNCHANGED <<input, output, topN,
                 items, concurrency, showDiag, maxRetries, now, file, db, dbOpen,
                 initialized, saves, lastSet, nextIndex, runner, pool, rows,
                 diagnostics, phase, results, qualified, scanned>>

\* The callback after fetchTickerSnapshot returned null: if (!snapshot) return.
Skip(i) ==
  /\ Alive
  /\ cb[i].pc = "skip"
  /\ cb' = [cb EXCEPT ![i] = [@ EXCEPT !.pc = "done", !.attempt = 0, !.tries = 0,
                                       !.fails = 0]]
  /\ UNCHANGED <<input, output, topN,
                 items, concurrency, showDiag, maxRetries, now, file, db, dbOpen, initialized,
                 saves, lastSet, nextIndex, runner, pool, rows, diagnostics, phase,
                 results, qualified, scanned>>

\* The insertion of a sort with the comparison the other way round,
\* (a, b) => a.carlsonQualityScore - b.carlsonQualityScore.
RECURSIVE InsertRowAscending(_, _)
InsertRowAscending(s, r) ==
  IF s = <<>> THEN <<r>>
  ELSE IF Head(s).carlsonQualityScore <= r.carlsonQualityScore
       THEN <<Head(s)>> \o InsertRowAscending(Tail(s), r)
       ELSE <<r>> \o s

\* rows.sort((a, b) => b.carlsonQualityScore - a.carlsonQualityScore): stable.
RECURSIVE InsertRow(_, _)
InsertRow(s, r) ==
  IF s = <<>> THEN <<r>>
  ELSE IF Head(s).carlsonQualityScore >= r.carlsonQualityScore
       THEN <<Head(s)>> \o InsertRow(Tail(s), r)
       ELSE <<r>> \o s

RECURSIVE SortRows(_)
SortRows(s) ==
  IF s = <<>> THEN <<>>
  ELSE InsertRow(SortRows(SubSeq(s, 1, Len(s) - 1)), s[Len(s)])

\* rows.slice(0, topN)
Slice(s, n) == SubSeq(s, 1, IF n < Len(s) THEN n ELSE Len(s))

\* After the finally: on fulfilment sort, slice and report; on rejection the
\* error reaches main, which calls process.exit(1).
Finish ==
  /\ phase = "closed"
  /\ IF pool = "fulfilled"
     THEN /\ phase' = "returned"
          /\ rows' = SortRows(rows)
          /\ results' = Slice(rows', topN)
          /\ qualified' = Len(rows)
          /\ scanned' = N
     ELSE /\ phase' = "exited"
          /\ UNCHANGED <<rows, results, qualified, scanned>>
  /\ UNCHANGED <<input, output, topN,
                 items, concurrency, showDiag, maxRetries, now, file, db, dbOpen, initialized,
                 saves, lastSet, nextIndex, runner, pool, cb, diagnostics>>

\* Time passes while the process waits for a timer or for the network.
Tick ==
  /\ Alive
  /\ ~MicroPending
  /\ now < MaxNow
  /\ \E i \in Slots : cb[i].pc \in {"delay", "backoff"}
  /\ now' = now + 1
  /\ UNCHANGED <<input, output, topN,
                 items, concurrency, showDiag, maxRetries, file, db, dbOpen, initialized, saves,
                 lastSet, nextIndex, runner, pool, cb, rows, diagnostics, phase,
                 results, qualified, scanned>>

--------------------------------------------------------------------------
Next ==
  \/ StartPool
  \/ InitDone
  \/ \E r \in Runners : RunnerStep(r)
  \/ \E r \in Runners : RunnerFail(r)
  \/ PoolSettle
  \/ \E i \in Slots : CacheGet(i)
  \/ \E i \in Slots : UpstreamSettle(i)
  \/ \E i \in Slots : BackoffElapsed(i)
  \/ \E i \in Slots : CacheSet(i)
  \/ \E i \in Slots : Evaluate(i)
  \/ \E i \in Slots : Skip(i)
  \/ Close
  \/ Finish
  \/ Tick

Spec == Init /\ [][Next]_vars

SpecFetcher == InitFetcher /\ [][Next]_vars

--------------------------------------------------------------------------
\* The pure functions.  Counts, lengths and the composite score are integers.
\* Every other number is an exact fraction <<n, d>> in lowest terms with
\* d > 0, so that equal numbers are equal values; undefined is <<>>.

\* bounds of the function inputs
MaxPoints == 4           \* longest series given to growthStats

MaxRows == 4             \* longest list of rows given to dedupeByDate
MaxDates == 3            \* number of distinct dates in it

MaxCashFlowRows == 3     \* longest annualCashFlow given to computeAnnualFcfSeries

MaxFcfPoints == 4        \* longest FCF series given to computeDcf

\* parseArgs defaults and the series lengths buildRow keeps
DefaultMinRoic == 15
DefaultMinOperatingMargin == 20
DefaultMinBuybackPercent == 2
MaxSeries == 6           \* .slice(-6)

undefined == <<>>
Defined(x) == x # undefined
Abs(x) == IF x < 0 THEN -x ELSE x
Max(a, b) == IF a > b THEN a ELSE b

RECURSIVE GCD(_, _)
GCD(a, b) == IF b = 0 THEN a ELSE GCD(b, a % b)

\* The number n / d, d # 0
Num(n, d) ==
  LET g == GCD(Abs(n), Abs(d))
      sign == IF d < 0 THEN -1 ELSE 1
  IN <<(sign * n) \div g, (sign * d) \div g>>

IntNum(k) == <<k, 1>>
Less(a, b) == a[1] * b[2] < b[1] * a[2]
LessEq(a, b) == a[1] * b[2] <= b[1] * a[2]
Plus(a, b) == Num(a[1] * b[2] + b[1] * a[2], a[2] * b[2])
Minus(a, b) == Num(a[1] * b[2] - b[1] * a[2], a[2] * b[2])
Times(a, b) == Num(a[1] * b[1], a[2] * b[2])
Over(a, b) == Num(a[1] * b[2], a[2] * b[1])
Negate(a) == <<-a[1], a[2]>>
MathAbs(a) == <<Abs(a[1]), a[2]>>
MathMax(a, b) == IF Less(a, b) THEN b ELSE a
MathMin(a, b) == IF Less(b, a) THEN b ELSE a

\* Math.round(num / den) for den > 0: floor(x + 0.5)
MathRound(num, den) == (2 * num + den) \div (2 * den)

\* Math.ceil(num / den) for den > 0
MathCeil(num, den) == -((-num) \div den)

\* The required count as the smallest count reaching 80% of the intervals.
requiredCeil(intervals) == Max(1, MathCeil(intervals * 8, 10))

\* Math.max(1, Math.round(intervals * 0.8))
requiredFromIntervals(intervals) == Max(1, MathRound(intervals * 8, 10))

GrowthPass(stats) ==
  stats.intervals >= 3 /\ stats.positiveCount >= requiredFromIntervals(stats.intervals)

\* The ROIC criterion with >= in place of >.
roicPassNonStrict(row, options) ==
  Defined(row.roicPercent) /\ LessEq(options.minRoic, row.roicPercent)

roicPass(row, options) ==
  Defined(row.roicPercent) /\ Less(options.minRoic, row.roicPercent)

buybackPass(row, options) ==
  /\ Defined(row.sharesChange3yPercent)
  /\ LessEq(row.sharesChange3yPercent, Negate(MathAbs(options.minBuybackPercent)))

marginPass(row, options) ==
  /\ Defined(row.operatingMarginPercent)
  /\ Less(options.minOperatingMargin, row.operatingMarginPercent)

evaluateCarlsonFilters(row, options) ==
  [pass |-> /\ GrowthPass(row.revenueGrowth)
            /\ GrowthPass(row.netIncomeGrowth)
            /\ roicPass(row, options)
            /\ buybackPass(row, options)
            /\ marginPass(row, options),
   revenuePass |-> GrowthPass(row.revenueGrowth),
   netIncomePass |-> GrowthPass(row.netIncomeGrowth),
   roicPass |-> roicPass(row, options),
   buybackPass |-> buybackPass(row, options),
   marginPass |-> marginPass(row, options),
   revenueRequired |-> requiredFromIntervals(row.revenueGrowth.intervals),
   netIncomeRequired |-> requiredFromIntervals(row.netIncomeGrowth.intervals)]

RECURSIVE IntPow(_, _)
IntPow(b, e) == IF e = 0 THEN 1 ELSE b * IntPow(b, e - 1)

\* (Math.pow(base, 1 / periods) - 1) * 100 for base > 0, to a whole percent
\* (rounded down): the largest c with (1 + c / 100) ^ periods <= base.
IsFloorPercent(base, periods, c) ==
  /\ IntPow(100 + c, periods) * base[2] <= base[1] * IntPow(100, periods)
  /\ IntPow(100 + c + 1, periods) * base[2] > base[1] * IntPow(100, periods)

\* The percentage lies between 0 and 100 * (base - 1) when base >= 1, and
\* between -100 and 0 otherwise.
powPercent(base, periods) ==
  CHOOSE c \in (IF LessEq(IntNum(1), base)
                THEN 0..((100 * base[1]) \div base[2] - 100)
                ELSE (-100)..(-1)) :
    IsFloorPercent(base, periods, c)

\* A step counted when the later value is not below the earlier one.
IsNonNegativeStep(prev, cur) == LessEq(prev, cur)

\* values[i] > values[i - 1]
IsPositiveStep(prev, cur) == Less(prev, cur)

Last(seq) == seq[Len(seq)]

growthStats(values) ==
  IF Len(values) < 2
  THEN [positiveCount |-> 0, intervals |-> 0, cagrPercent |-> undefined]
  ELSE LET intervals == Len(values) - 1
           first == values[1]
           last == Last(values)
       IN [positiveCount |->
             Cardinality({i \in 2..Len(values) : IsPositiveStep(values[i - 1], values[i])}),
           intervals |-> intervals,
           cagrPercent |->
             IF Less(IntNum(0), first) /\ Less(IntNum(0), last) /\ intervals > 0
             THEN IntNum(powPercent(Over(last, first), intervals))
             ELSE undefined]

\* a.date.localeCompare(b.date) < 0.  A date is the rank of a canonical
\* YYYY-MM-DD string in the order of localeCompare.
DateBefore(a, b) == a.date < b.date

\* A map that keeps the row it already holds for the date.
MapSetKeepFirst(entries, row) ==
  IF \E k \in 1..Len(entries) : entries[k].date = row.date
  THEN entries
  ELSE Append(entries, row)

\* map.set(row.date, row): the entries of a Map are in the order in which
\* their keys were first inserted; setting an existing key replaces its value.
MapSet(entries, row) ==
  IF \E k \in 1..Len(entries) : entries[k].date = row.date
  THEN [k \in 1..Len(entries) |->
          IF entries[k].date = row.date THEN row ELSE entries[k]]
  ELSE Append(entries, row)

\* The loop of dedupeByDate and Array.from(map.values())
RECURSIVE MapValues(_)
MapValues(list) ==
  IF list = <<>> THEN <<>>
  ELSE MapSet(MapValues(SubSeq(list, 1, Len(list) - 1)), Last(list))

\* rows.sort((a, b) => a.date.localeCompare(b.date)): a stable sort
RECURSIVE InsertByDate(_, _)
InsertByDate(sorted, row) ==
  IF sorted = <<>> THEN <<row>>
  ELSE IF DateBefore(row, Head(sorted))
       THEN <<row>> \o sorted
       ELSE <<Head(sorted)>> \o InsertByDate(Tail(sorted), row)

RECURSIVE sortByDateAsc(_)
sortByDateAsc(list) ==
  IF list = <<>> THEN <<>>
  ELSE InsertByDate(sortByDateAsc(SubSeq(list, 1, Len(list) - 1)), Last(list))

dedupeByDate(list) == sortByDateAsc(MapValues(list))

\* The derived value with capex always subtracted.
derivedFcfSubtract(operatingCashFlow, capex) == Minus(operatingCashFlow, capex)

\* capex < 0 ? row.operatingCashFlow + capex : row.operatingCashFlow - capex
derivedFcf(operatingCashFlow, capex) ==
  IF Less(capex, IntNum(0))
  THEN Plus(operatingCashFlow, capex)
  ELSE Minus(operatingCashFlow, capex)

\* The body of the loop of computeAnnualFcfSeries: values after the row.
\* (A stored number is finite: toNumber and JSON keep no NaN or Infinity.)
PushFcf(values, row) ==
  IF Defined(row.freeCashFlow)
  THEN Append(values, row.freeCashFlow)
  ELSE IF row.operatingCashFlow = undefined \/ row.capitalExpenditure = undefined
  THEN values
  ELSE Append(values, derivedFcf(row.operatingCashFlow, row.capitalExpenditure))

RECURSIVE FcfOfRows(_)
FcfOfRows(list) ==
  IF list = <<>> THEN <<>>
  ELSE PushFcf(FcfOfRows(SubSeq(list, 1, Len(list) - 1)), Last(list))

computeAnnualFcfSeries(snapshot) == FcfOfRows(snapshot.annualCashFlow)

\* a || b: a zero falls through to b as an absent value does.
CoalesceOr(a, b) == IF Defined(a) /\ a # IntNum(0) THEN a ELSE b

\* a ?? b
Coalesce(a, b) == IF Defined(a) THEN a ELSE b

\* list.slice(-n)
SliceLast(list, n) == SubSeq(list, Max(1, Len(list) - n + 1), Len(list))

\* list.filter((v) => v > 0)
FilterPositive(list) == SelectSeq(list, LAMBDA v : Less(IntNum(0), v))

clamp(value, min, max) == MathMax(min, MathMin(max, value))

\* The growth of the trailing points, as computed and not clamped.
trailingGrowthUnclamped(fcfSeries) ==
  LET trailing == FilterPositive(SliceLast(fcfSeries, 3))
  IN IF Len(trailing) >= 2
     THEN Num(powPercent(Over(Last(trailing), trailing[1]), Len(trailing) - 1), 100)
     ELSE Num(4, 100)

\* computeDcf: growth, from const trailing to growth = clamp(growth, -0.05, 0.20)
trailingGrowth(fcfSeries) ==
  LET trailing == FilterPositive(SliceLast(fcfSeries, 3))
      growth == IF Len(trailing) >= 2
                THEN Num(powPercent(Over(Last(trailing), trailing[1]), Len(trailing) - 1), 100)
                ELSE Num(4, 100)
  IN clamp(growth, Num(-5, 100), Num(20, 100))

\* list[i - 1] of JavaScript: an element, held in a list of one, or undefined
At(list, i) == IF i \in 1..Len(list) THEN <<list[i]>> ELSE undefined

\* The share count of the latest quarter, and the reported one only when the
\* quarter has none.
sharesOutstandingQuarterFirst(snapshot) ==
  LET lastQuarter == At(snapshot.quarterlyShares, Len(snapshot.quarterlyShares))
  IN Coalesce(IF Defined(lastQuarter) THEN lastQuarter[1].ordinarySharesNumber
              ELSE undefined,
              Coalesce(IF Defined(lastQuarter) THEN lastQuarter[1].shareIssued
                       ELSE undefined,
                       snapshot.sharesOutstanding))

\* snapshot.sharesOutstanding ?? lastQuarter?.ordinarySharesNumber
\*   ?? lastQuarter?.shareIssued
sharesOutstandingOf(snapshot) ==
  LET lastQuarter == At(snapshot.quarterlyShares, Len(snapshot.quarterlyShares))
  IN Coalesce(snapshot.sharesOutstanding,
              Coalesce(IF Defined(lastQuarter) THEN lastQuarter[1].ordinarySharesNumber
                       ELSE undefined,
                       IF Defined(lastQuarter) THEN lastQuarter[1].shareIssued
                       ELSE undefined))

\* computeDcf.  The intrinsic value per share is kept as the term
\* <<"dcf", latestFcf, growth, sharesOutstanding>>: ten years of latestFcf
\* growing at growth, discounted at 10%, plus the discounted terminal value,
\* divided by sharesOutstanding.  With latestFcf > 0, growth >= -0.05 and
\* sharesOutstanding > 0 it is a positive real, so the test
\* !Number.isFinite(...) || ... <= 0 does not discard it.  The upside is the
\* term <<"upside", intrinsic value, currentPrice>>.
computeDcf(snapshot, fcfSeries) ==
  LET none == [intrinsicValuePerShare |-> undefined, upsidePercent |-> undefined]
      sharesOutstanding == sharesOutstandingOf(snapshot)
      currentPrice == snapshot.currentPrice
  IN IF Len(fcfSeries) < 2 THEN none
     ELSE IF \/ LessEq(Last(fcfSeries), IntNum(0))
             \/ sharesOutstanding = undefined
             \/ LessEq(sharesOutstanding, IntNum(0))
     THEN none
     ELSE LET intrinsicValuePerShare ==
                <<"dcf", Last(fcfSeries), trailingGrowth(fcfSeries), sharesOutstanding>>
          IN [intrinsicValuePerShare |-> intrinsicValuePerShare,
              upsidePercent |->
                IF Defined(currentPrice) /\ Less(IntNum(0), currentPrice)
                THEN <<"upside", intrinsicValuePerShare, currentPrice>>
                ELSE undefined]

normalizedGrowthScore(stats, weight) ==
  IF stats.intervals <= 0 THEN IntNum(0)
  ELSE Times(Num(stats.positiveCount, stats.intervals), IntNum(weight))

\* The ROIC component without the clamp.
roicScoreUnclamped(roicPercent) ==
  IF Defined(roicPercent)
  THEN Times(Over(Minus(roicPercent, IntNum(5)), IntNum(20)), IntNum(20))
  ELSE IntNum(0)

\* clamp((input.roicPercent - 5) / 20, 0, 1) * 20
roicScore(roicPercent) ==
  IF Defined(roicPercent)
  THEN Times(clamp(Over(Minus(roicPercent, IntNum(5)), IntNum(20)), IntNum(0), IntNum(1)),
             IntNum(20))
  ELSE IntNum(0)

\* if (input.latestFcf !== undefined && input.latestFcf > 0) score += 5
fcfPositiveScore(latestFcf) ==
  IF Defined(latestFcf) /\ Less(IntNum(0), latestFcf) THEN IntNum(5) ELSE IntNum(0)

\* clamp((input.fcfGrowthPercent + 5) / 20, 0, 1) * 5
fcfGrowthScore(fcfGrowthPercent) ==
  IF Defined(fcfGrowthPercent)
  THEN Times(clamp(Over(Plus(fcfGrowthPercent, IntNum(5)), IntNum(20)), IntNum(0), IntNum(1)),
             IntNum(5))
  ELSE IntNum(0)

\* clamp((-input.sharesChange3yPercent) / 8, 0, 1) * 10
buybackScore(sharesChange3yPercent) ==
  IF Defined(sharesChange3yPercent)
  THEN Times(clamp(Over(Negate(sharesChange3yPercent), IntNum(8)), IntNum(0), IntNum(1)),
             IntNum(10))
  ELSE IntNum(0)

\* A margin ramp that starts at 0% instead of 10%.
marginScoreFromZero(operatingMarginPercent) ==
  IF Defined(operatingMarginPercent)
  THEN Times(clamp(Over(operatingMarginPercent, IntNum(20)), IntNum(0), IntNum(1)),
             IntNum(10))
  ELSE IntNum(0)

\* clamp((input.operatingMarginPercent - 10) / 20, 0, 1) * 10
marginScore(operatingMarginPercent) ==
  IF Defined(operatingMarginPercent)
  THEN Times(clamp(Over(Minus(operatingMarginPercent, IntNum(10)), IntNum(20)),
                   IntNum(0), IntNum(1)),
             IntNum(10))
  ELSE IntNum(0)

\* The components of the composite score, in the order they are added.
scoreComponents(in) ==
  <<normalizedGrowthScore(in.revenueGrowth, 20),
    normalizedGrowthScore(in.netIncomeGrowth, 20),
    normalizedGrowthScore(in.epsGrowth, 10),
    roicScore(in.roicPercent),
    fcfPositiveScore(in.latestFcf),
    fcfGrowthScore(in.fcfGrowthPercent),
    buybackScore(in.sharesChange3yPercent),
    marginScore(in.operatingMarginPercent)>>

RECURSIVE Sum(_)
Sum(list) == IF list = <<>> THEN IntNum(0) ELSE Plus(Head(list), Sum(Tail(list)))

\* clamp(Math.round(score), 1, 100)
computeCarlsonScore(in) ==
  LET score == Sum(scoreComponents(in))
  IN clamp(IntNum(MathRound(score[1], score[2])), IntNum(1), IntNum(100))[1]

\* A TypeError: a property of undefined was read.
Thrown == <<"TypeError">>

\* list.map((x) => x[field]).filter((v) => v !== undefined && ...)
RECURSIVE MapDefined(_, _)
MapDefined(list, field) ==
  IF list = <<>> THEN <<>>
  ELSE LET rest == MapDefined(Tail(list), field)
       IN IF Defined(Head(list)[field]) THEN <<Head(list)[field]>> \o rest ELSE rest

\* The guard of computeRoicPercent with the test of latestBalance left out.
MissingNetIncome(latestBalance, latestNetIncome) == latestNetIncome = undefined

\* !latestBalance || latestNetIncome === undefined
MissingRoicInput(latestBalance, latestNetIncome) ==
  latestBalance = undefined \/ latestNetIncome = undefined

computeRoicPercent(snapshot) ==
  LET latestBalance == At(snapshot.annualBalanceSheet, Len(snapshot.annualBalanceSheet))
      latestFinancials == At(snapshot.annualFinancials, Len(snapshot.annualFinancials))
      latestNetIncome == IF Defined(latestFinancials) THEN latestFinancials[1].netIncome
                         ELSE undefined
  IN IF MissingRoicInput(latestBalance, latestNetIncome) THEN undefined
     ELSE IF latestBalance = undefined THEN Thrown
     ELSE LET balance == latestBalance[1]
              equity == balance.stockholdersEquity
              debt == Coalesce(balance.longTermDebtAndCapitalLeaseObligation,
                               Coalesce(balance.longTermDebt,
                                        Coalesce(balance.totalDebt, IntNum(0))))
              cash == Coalesce(balance.cashCashEquivalentsAndShortTermInvestments,
                               Coalesce(balance.cashAndCashEquivalents, IntNum(0)))
          IN IF equity = undefined THEN undefined
             ELSE LET investedCapital == Minus(Plus(equity, debt), cash)
                  IN IF LessEq(investedCapital, IntNum(0)) THEN undefined
                     ELSE Times(Over(latestNetIncome, investedCapital), IntNum(100))

\* The change of the earlier count relative to the latest one.
ChangePercentReversed(latest, threeYearsAgo) ==
  Times(Minus(Over(threeYearsAgo, latest), IntNum(1)), IntNum(100))

\* ((latest / threeYearsAgo) - 1) * 100
ChangePercent(latest, threeYearsAgo) ==
  Times(Minus(Over(latest, threeYearsAgo), IntNum(1)), IntNum(100))

\* q.ordinarySharesNumber ?? q.shareIssued, for every quarter
RECURSIVE QuarterlyCounts(_)
QuarterlyCounts(list) ==
  IF list = <<>> THEN <<>>
  ELSE LET v == Coalesce(Head(list).ordinarySharesNumber, Head(list).shareIssued)
       IN (IF Defined(v) THEN <<v>> ELSE <<>>) \o QuarterlyCounts(Tail(list))

computeSharesChange3y(snapshot) ==
  LET quarterlySeries == FilterPositive(QuarterlyCounts(snapshot.quarterlyShares))
      annualShareSeries ==
        FilterPositive(MapDefined(snapshot.annualFinancials, "dilutedAverageShares"))
  IN IF Len(quarterlySeries) >= 13
     THEN ChangePercent(Last(quarterlySeries), quarterlySeries[Len(quarterlySeries) - 12])
     ELSE IF Len(annualShareSeries) >= 4
     THEN ChangePercent(Last(annualShareSeries),
                        annualShareSeries[Len(annualShareSeries) - 3])
     ELSE undefined

\* value <= 1 ? value * 100 : value
AsPercent(value) == IF LessEq(value, IntNum(1)) THEN Times(value, IntNum(100)) ELSE value

computeOperatingMarginPercent(snapshot) ==
  IF snapshot.operatingMargins = undefined THEN undefined
  ELSE AsPercent(snapshot.operatingMargins)

computeYieldMetrics(snapshot) ==
  LET currentYieldPercent ==
        IF Defined(snapshot.dividendYield) THEN AsPercent(snapshot.dividendYield)
        ELSE undefined
      yields == SelectSeq(MapDefined(snapshot.yearlyDividendYields, "yield"),
                          LAMBDA x : LessEq(IntNum(0), x))
      avgYield5yPercent ==
        IF Len(yields) > 0
        THEN Times(Over(Sum(yields), IntNum(Len(yields))), IntNum(100))
        ELSE undefined
  IN [currentYieldPercent |-> currentYieldPercent,
      avgYield5yPercent |-> avgYield5yPercent,
      yieldVs5yAvgPercent |->
        IF Defined(currentYieldPercent) /\ Defined(avgYield5yPercent)
        THEN Minus(currentYieldPercent, avgYield5yPercent)
        ELSE undefined]

\* What a call that ended with an exception leaves instead of a value.
Exception == [exception |-> "TypeError"]

IsException(value) == "exception" \in DOMAIN value

\* An exception of a callee leaves buildRow as well.
buildRow(snapshot) ==
  LET revenueSeries ==
        SliceLast(FilterPositive(MapDefined(snapshot.annualFinancials, "totalRevenue")),
                  MaxSeries)
      netIncomeSeries ==
        SliceLast(MapDefined(snapshot.annualFinancials, "netIncome"), MaxSeries)
      epsSeries ==
        SliceLast(MapDefined([i \in 1..Len(snapshot.annualFinancials) |->
                                [eps |-> Coalesce(snapshot.annualFinancials[i].dilutedEPS,
                                                  snapshot.annualFinancials[i].basicEPS)]],
                             "eps"),
                  MaxSeries)
      revenueGrowth == growthStats(revenueSeries)
      netIncomeGrowth == growthStats(netIncomeSeries)
      epsGrowth == growthStats(epsSeries)
      roicPercent == computeRoicPercent(snapshot)
      fcfSeries == computeAnnualFcfSeries(snapshot)
      latestFcf == IF fcfSeries = <<>> THEN undefined ELSE Last(fcfSeries)
      fcfGrowth == growthStats(SliceLast(fcfSeries, 4))
      sharesChange3yPercent == computeSharesChange3y(snapshot)
      operatingMarginPercent == computeOperatingMarginPercent(snapshot)
      yieldMetrics == computeYieldMetrics(snapshot)
      dcf == computeDcf(snapshot, fcfSeries)
  IN IF roicPercent = Thrown THEN Exception
     ELSE [ticker |-> snapshot.ticker,
           revenueGrowth |-> revenueGrowth,
           netIncomeGrowth |-> netIncomeGrowth,
           epsGrowth |-> epsGrowth,
           roicPercent |-> roicPercent,
           latestFcf |-> latestFcf,
           fcfGrowthPercent |-> fcfGrowth.cagrPercent,
           sharesChange3yPercent |-> sharesChange3yPercent,
           operatingMarginPercent |-> operatingMarginPercent,
           currentYieldPercent |-> yieldMetrics.currentYieldPercent,
           avgYield5yPercent |-> yieldMetrics.avgYield5yPercent,
           yieldVs5yAvgPercent |-> yieldMetrics.yieldVs5yAvgPercent,
           dcfIntrinsicValuePerShare |-> dcf.intrinsicValuePerShare,
           dcfUpsidePercent |-> dcf.upsidePercent,
           carlsonQualityScore |->
             computeCarlsonScore(
               [revenueGrowth |-> revenueGrowth,
                netIncomeGrowth |-> netIncomeGrowth,
                epsGrowth |-> epsGrowth,
                roicPercent |-> roicPercent,
                latestFcf |-> latestFcf,
                fcfGrowthPercent |-> fcfGrowth.cagrPercent,
                sharesChange3yPercent |-> sharesChange3yPercent,
                operatingMarginPercent |-> operatingMarginPercent])]

\* Times and epoch numbers are counted in units of 10^7 milliseconds.
\* 1_000_000_000_000 in these units.
SecondsLimit == 100000

\* The largest time value of a Date, 8.64 * 10^15 milliseconds, in units.
MaxTime == 864000000

\* The number NaN, and the time of an invalid Date: 0 / 0.
NaN == <<0, 0>>

\* A raw date: what it is (typeof / instanceof), its number (the time of a
\* Date, the value of a number: <<n>> or NaN) and its text when it is a
\* string.
DateValue(type, number, text) == [type |-> type, number |-> number, text |-> text]

\* new Date(millis).getTime(): NaN outside the range of time values
TimeClip(millis) == IF Abs(millis) > MaxTime THEN NaN ELSE <<millis>>

\* new Date(text).getTime() for the texts of the model
DateParse(text) ==
  CASE text = "2023-12-31" -> <<170398>>
    [] text = "2024-03-31T00:00:00.000Z" -> <<171184>>
    [] OTHER -> NaN

\* date.toISOString().slice(0, 10): the calendar day of a time value, as the
\* number of days since 1970-01-01 (a day is 8.64 units: floor(t * 25 / 216)).
ISODay(t) ==
  LET q == t \div 216
      r == t % 216
  IN q * 25 + (r * 25) \div 216

\* !value
Falsy(value) ==
  \/ value.type = "undefined"
  \/ value.type = "number" /\ value.number \in {<<0>>, NaN}
  \/ value.type = "string" /\ value.text = ""

null == <<>>

\* The result is null or <<day>>.
normalizeDate(value) ==
  IF Falsy(value) THEN null
  ELSE IF value.type = "Date"
  THEN IF value.number = NaN THEN null ELSE <<ISODay(value.number[1])>>
  ELSE IF value.type = "number"
  THEN LET millis == IF value.number[1] > SecondsLimit THEN value.number[1]
                     ELSE value.number[1] * 1000
           date == TimeClip(millis)
       IN IF date = NaN THEN null ELSE <<ISODay(date[1])>>
  ELSE LET parsed == DateParse(value.text)
       IN IF parsed = NaN THEN null ELSE <<ISODay(parsed[1])>>

\* A raw field is undefined, a finite number <<n, d>>, or NaN.
toNumber(value) == IF value # undefined /\ value # NaN THEN value ELSE undefined

\* The body of the loop of toAnnualFinancialPoints.
PushFinancialPoint(points, row) ==
  LET date == normalizeDate(row.date)
      totalRevenue == Coalesce(toNumber(row.totalRevenue), toNumber(row.operatingRevenue))
      netIncome == Coalesce(toNumber(row.netIncomeCommonStockholders),
                            toNumber(row.netIncome))
      dilutedEPS == toNumber(row.dilutedEPS)
      basicEPS == toNumber(row.basicEPS)
      dilutedAverageShares == toNumber(row.dilutedAverageShares)
  IN IF date = null THEN points
     ELSE IF /\ totalRevenue = undefined
             /\ netIncome = undefined
             /\ dilutedEPS = undefined
             /\ basicEPS = undefined
             /\ dilutedAverageShares = undefined
     THEN points
     ELSE Append(points, [date |-> date[1], totalRevenue |-> totalRevenue,
                          netIncome |-> netIncome, dilutedEPS |-> dilutedEPS,
                          basicEPS |-> basicEPS,
                          dilutedAverageShares |-> dilutedAverageShares])

RECURSIVE FinancialPoints(_)
FinancialPoints(raw) ==
  IF raw = <<>> THEN <<>>
  ELSE PushFinancialPoint(FinancialPoints(SubSeq(raw, 1, Len(raw) - 1)), Last(raw))

toAnnualFinancialPoints(raw) == dedupeByDate(FinancialPoints(raw))

\* The program is not running: only the function under analysis is called.
NotRunning == Setup({0}, {1}, {NoRecord}, {DefaultMaxRetries}, {FALSE}, {0})

\* What growthStats can return for a series of at most MaxSeries values.
GrowthCounts ==
  {[positiveCount |-> p, intervals |-> n] : p \in 0..(MaxSeries - 1), n \in 0..(MaxSeries - 1)}
    \ {g \in [positiveCount : 0..(MaxSeries - 1), intervals : 0..(MaxSeries - 1)] :
         g.positiveCount > g.intervals}

FilterRows ==
  [revenueGrowth : GrowthCounts,
   netIncomeGrowth : GrowthCounts,
   roicPercent : {undefined, IntNum(DefaultMinRoic), Num(2 * DefaultMinRoic + 1, 2)},
   sharesChange3yPercent :
     {undefined, IntNum(-DefaultMinBuybackPercent - 1), IntNum(-DefaultMinBuybackPercent),
      Num(-2 * DefaultMinBuybackPercent + 1, 2)},
   operatingMarginPercent :
     {undefined, IntNum(DefaultMinOperatingMargin),
      Num(2 * DefaultMinOperatingMargin + 1, 2)}]

FilterOptions ==
  [minRoic : {IntNum(DefaultMinRoic)},
   minOperatingMargin : {IntNum(DefaultMinOperatingMargin)},
   minBuybackPercent : {IntNum(DefaultMinBuybackPercent), IntNum(-DefaultMinBuybackPercent)}]

InitFilters ==
  /\ input \in [row : FilterRows, options : FilterOptions]
  /\ output = <<>>
  /\ NotRunning

CallEvaluateCarlsonFilters ==
  /\ output = <<>>
  /\ output' = evaluateCarlsonFilters(input.row, input.options)
  /\ UNCHANGED <<input, runVars>>

SpecFilters == InitFilters /\ [][CallEvaluateCarlsonFilters]_vars

\* Series of at most MaxPoints values around zero.
SeriesOf(values, maxLen) == UNION {[1..n -> values] : n \in 0..maxLen}

GrowthInputs == SeriesOf({IntNum(-1), IntNum(0), IntNum(1), IntNum(2)}, MaxPoints)

InitGrowth ==
  /\ input \in GrowthInputs
  /\ output = <<>>
  /\ NotRunning

CallGrowthStats ==
  /\ output = <<>>
  /\ output' = growthStats(input)
  /\ UNCHANGED <<input, runVars>>

SpecGrowth == InitGrowth /\ [][CallGrowthStats]_vars

DatedRows == SeriesOf([date : 1..MaxDates, value : {"x", "y"}], MaxRows)

InitDedupe ==
  /\ input \in DatedRows
  /\ output = <<>>
  /\ NotRunning

\* dedupeByDate(rows), and then dedupeByDate of what it returned: output is
\* the list of the values returned so far.
CallDedupeByDate ==
  /\ Len(output) < 2
  /\ output' = Append(output, dedupeByDate(IF output = <<>> THEN input ELSE Last(output)))
  /\ UNCHANGED <<input, runVars>>

SpecDedupe == InitDedupe /\ [][CallDedupeByDate]_vars

CashFlowRows ==
  [freeCashFlow : {undefined, IntNum(120)},
   operatingCashFlow : {undefined, IntNum(200)},
   capitalExpenditure : {undefined, IntNum(-50), IntNum(0), IntNum(50)}]

InitFcf ==
  /\ input \in [annualCashFlow : SeriesOf(CashFlowRows, MaxCashFlowRows)]
  /\ output = <<>>
  /\ NotRunning

\* output is <<values>>, the returned series in a list of one.
CallComputeAnnualFcfSeries ==
  /\ output = <<>>
  /\ output' = <<computeAnnualFcfSeries(input)>>
  /\ UNCHANGED <<input, runVars>>

SpecFcf == InitFcf /\ [][CallComputeAnnualFcfSeries]_vars

FcfValues == {IntNum(-1), IntNum(4), IntNum(6), IntNum(7), IntNum(9), IntNum(10)}

DcfSnapshots ==
  [sharesOutstanding : {undefined, IntNum(10)},
   quarterlyShares :
     {<<>>, <<[ordinarySharesNumber |-> undefined, shareIssued |-> IntNum(8)]>>},
   currentPrice : {undefined, IntNum(5)}]

InitDcf ==
  /\ input \in [snapshot : DcfSnapshots, fcfSeries : SeriesOf(FcfValues, MaxFcfPoints)]
  /\ output = <<>>
  /\ NotRunning

CallComputeDcf ==
  /\ output = <<>>
  /\ output' = computeDcf(input.snapshot, input.fcfSeries)
  /\ UNCHANGED <<input, runVars>>

SpecDcf == InitDcf /\ [][CallComputeDcf]_vars

ScoreInputs ==
  [revenueGrowth : {[positiveCount |-> 0, intervals |-> 0],
                    [positiveCount |-> 0, intervals |-> 3],
                    [positiveCount |-> 2, intervals |-> 3],
                    [positiveCount |-> 3, intervals |-> 3],
                    [positiveCount |-> 5, intervals |-> 5]},
   netIncomeGrowth : {[positiveCount |-> 0, intervals |-> 0],
                      [positiveCount |-> 0, intervals |-> 4],
                      [positiveCount |-> 1, intervals |-> 4],
                      [positiveCount |-> 3, intervals |-> 4],
                      [positiveCount |-> 5, intervals |-> 5]},
   epsGrowth : {[positiveCount |-> 0, intervals |-> 0],
                [positiveCount |-> 1, intervals |-> 3],
                [positiveCount |-> 5, intervals |-> 5]},
   roicPercent : {undefined, IntNum(-10), IntNum(15), IntNum(40)},
   latestFcf : {undefined, IntNum(-1), IntNum(1)},
   fcfGrowthPercent : {undefined, IntNum(-10), IntNum(-4), IntNum(30)},
   sharesChange3yPercent : {undefined, IntNum(5), Num(-1, 3), IntNum(-10)},
   operatingMarginPercent : {undefined, IntNum(5), IntNum(21), IntNum(40)}]

InitScore ==
  /\ input \in ScoreInputs
  /\ output = <<>>
  /\ NotRunning

\* output is <<score>>, the returned number in a list of one.
CallComputeCarlsonScore ==
  /\ output = <<>>
  /\ output' = <<computeCarlsonScore(input)>>
  /\ UNCHANGED <<input, runVars>>

SpecScore == InitScore /\ [][CallComputeCarlsonScore]_vars

\* Four yearly statements: the revenue and the net income of each year, the
\* earnings per share and the diluted share count.
Statements(revenue, netIncome, shares) ==
  [i \in 1..4 |->
     [totalRevenue |-> IntNum(revenue[i]), netIncome |-> IntNum(netIncome[i]),
      dilutedEPS |-> undefined, basicEPS |-> Num(netIncome[i], 10),
      dilutedAverageShares |-> IntNum(shares[i])]]

EmptyStatement ==
  [totalRevenue |-> undefined, netIncome |-> undefined, dilutedEPS |-> undefined,
   basicEPS |-> undefined, dilutedAverageShares |-> undefined]

\* Revenue 100, 110, 121, 133 with net income 10, -5, 12, 15.
DipStatements == Statements(<<100, 110, 121, 133>>, <<10, -5, 12, 15>>, <<100, 98, 96, 90>>)

AnnualFinancials ==
  {<<>>, <<EmptyStatement, EmptyStatement>>, DipStatements,
   Statements(<<100, 110, 121, 133>>, <<10, 11, 12, 15>>, <<100, 100, 100, 100>>)}

BalanceSheet(equity, longTermDebt, cash) ==
  [stockholdersEquity |-> equity, longTermDebtAndCapitalLeaseObligation |-> undefined,
   longTermDebt |-> longTermDebt, totalDebt |-> undefined,
   cashCashEquivalentsAndShortTermInvestments |-> undefined,
   cashAndCashEquivalents |-> cash]

AnnualBalanceSheets ==
  {<<>>, <<BalanceSheet(undefined, undefined, undefined)>>,
   <<BalanceSheet(IntNum(10), undefined, IntNum(20))>>,
   <<BalanceSheet(IntNum(50), IntNum(20), IntNum(20))>>}

CashFlow(freeCashFlow) ==
  [freeCashFlow |-> freeCashFlow, operatingCashFlow |-> undefined,
   capitalExpenditure |-> undefined]

AnnualCashFlows ==
  {<<>>, <<CashFlow(IntNum(4))>>,
   <<CashFlow(IntNum(4)), CashFlow(IntNum(6)), CashFlow(undefined), CashFlow(IntNum(9))>>}

\* Thirteen quarters in which the share count falls from 112 to 100.
QuarterlyShares ==
  {<<>>,
   [i \in 1..13 |-> [ordinarySharesNumber |-> IntNum(113 - i), shareIssued |-> undefined]]}

Snapshots ==
  [ticker : {"A"},
   annualFinancials : AnnualFinancials,
   annualBalanceSheet : AnnualBalanceSheets,
   annualCashFlow : AnnualCashFlows,
   quarterlyShares : QuarterlyShares,
   operatingMargins : {undefined, Num(1, 4), IntNum(30)},
   dividendYield : {undefined, Num(1, 50)},
   yearlyDividendYields : {<<>>, <<[yield |-> Num(1, 100)], [yield |-> Num(3, 100)]>>},
   sharesOutstanding : {undefined, IntNum(10)},
   currentPrice : {undefined, IntNum(5)}]

InitRow ==
  /\ input \in [snapshot : Snapshots,
                options : [minRoic : {IntNum(DefaultMinRoic)},
                           minOperatingMargin : {IntNum(DefaultMinOperatingMargin)},
                           minBuybackPercent : {IntNum(DefaultMinBuybackPercent)}]]
  /\ output = <<>>
  /\ NotRunning

\* const row = buildRow(snapshot): output is <<row>>, or <<Exception>>.
CallBuildRow ==
  /\ output = <<>>
  /\ output' = <<buildRow(input.snapshot)>>
  /\ UNCHANGED <<input, runVars>>

\* const evaluation = evaluateCarlsonFilters(row, options), reached when
\* buildRow returned: output is then <<row, evaluation>>.
CallEvaluateRow ==
  /\ Len(output) = 1
  /\ ~IsException(output[1])
  /\ output' = Append(output, evaluateCarlsonFilters(output[1], input.options))
  /\ UNCHANGED <<input, runVars>>

NextRow == CallBuildRow \/ CallEvaluateRow

SpecRow == InitRow /\ [][NextRow]_vars

\* The largest --top-n of the report states.
MaxTopN == 3

\* Composite scores of the report states.
ReportScores == {40, 60, 80}

\* rows after the pool ran the tickers of list one after the other: the rows
\* of the tickers that pass, in the order of the list.
RECURSIVE RowsOf(_, _, _)
RowsOf(list, pass, score) ==
  IF list = <<>> THEN <<>>
  ELSE (IF pass[Head(list)]
        THEN <<[ticker |-> Head(list), carlsonQualityScore |-> score[Head(list)]]>>
        ELSE <<>>) \o RowsOf(Tail(list), pass, score)

\* runCompoundingMachine after the finally block: one runner went through the
\* list, every lookup was a hit, the pool promise is fulfilled and the cache
\* is closed.  Which tickers pass, and their scores, are those of their
\* fundamentals.
InitReport ==
  /\ input = <<>>
  /\ output = <<>>
  /\ topN \in 0..MaxTopN
  /\ items \in UNION {[1..n -> Tickers] : n \in 0..MaxTickers}
  /\ concurrency = 1
  /\ showDiag = FALSE
  /\ maxRetries = DefaultMaxRetries
  /\ now = StartNow
  /\ file = [t \in Tickers |-> [kind |-> "ok", at |-> StartNow - TtlMs, by |-> -1]]
  /\ db = EmptyTable
  /\ dbOpen = FALSE
  /\ initialized = TRUE
  /\ saves = 1
  /\ lastSet = EmptyTable
  /\ nextIndex = N
  /\ runner = [r \in Runners |-> [pc |-> "done", cur |-> -1]]
  /\ pool = "fulfilled"
  /\ cb = [i \in Slots |->
             IF i < N
             THEN [IdleCb EXCEPT !.pc = "done", !.item = ItemAt(i), !.calls = 1,
                                 !.lookup = "hit"]
             ELSE IdleCb]
  /\ \E pass \in [Tickers -> BOOLEAN], score \in [Tickers -> ReportScores] :
       rows = RowsOf(items, pass, score)
  /\ diagnostics = <<>>
  /\ phase = "closed"
  /\ results = <<>>
  /\ qualified = 0
  /\ scanned = 0

SpecReport == InitReport /\ [][Finish]_vars

\* private requestDelayMs: number = 250
DefaultRequestDelayMs == 250

\* Math.random() * 250
JitterMax == 250

\* Values of Math.random() * 250, which lies in [0, 250): none, a quarter and
\* a half of a millisecond, and half a millisecond below the maximum.
Jitters == {IntNum(0), Num(1, 4), Num(1, 2), Num(2 * JitterMax - 1, 2)}

\* A backoff of requestDelayMs * (attempt + 1): linear, not exponential.
backoffLinear(requestDelayMs, attempt, jitter) ==
  LET delay == Plus(Times(IntNum(requestDelayMs), IntNum(attempt + 1)), jitter)
  IN MathRound(delay[1], delay[2])

\* Math.round(this.requestDelayMs * Math.pow(2, attempt) + Math.random() * 250)
backoff(requestDelayMs, attempt, jitter) ==
  LET delay == Plus(Times(IntNum(requestDelayMs), IntNum(IntPow(2, attempt))), jitter)
  IN MathRound(delay[1], delay[2])

\* One call of fetchWithRetry.  output holds the position in the loop (pc),
\* the loop variable attempt, the returned value once there is one, and the
\* events so far: the calls of fetchFromApi, each with its attempt number,
\* and the sleeps, each with its duration in milliseconds.
InitRetry ==
  /\ input = [maxRetries |-> DefaultMaxRetries, requestDelayMs |-> DefaultRequestDelayMs]
  /\ output = [pc |-> "fetch", attempt |-> 0, result |-> "none",
               events |-> <<[kind |-> "attempt", attempt |-> 0, ms |-> 0]>>]
  /\ NotRunning

\* await this.fetchFromApi(ticker) returns: return data.
FetchReturns ==
  /\ output.pc = "fetch"
  /\ output' = [output EXCEPT !.pc = "returned", !.result = "data"]
  /\ UNCHANGED <<input, runVars>>

\* await this.fetchFromApi(ticker) throws: the catch block, up to return null
\* or to await sleep(backoff).
FetchThrows ==
  /\ output.pc = "fetch"
  /\ IF output.attempt >= input.maxRetries
     THEN output' = [output EXCEPT !.pc = "returned", !.result = "null"]
     ELSE \E jitter \in Jitters :
            output' = [output EXCEPT
                         !.pc = "sleep",
                         !.events = Append(@, [kind |-> "sleep",
                                               attempt |-> output.attempt,
                                               ms |-> backoff(input.requestDelayMs,
                                                              output.attempt, jitter)])]
  /\ UNCHANGED <<input, runVars>>

\* The sleep ends: attempt++, the loop test, and the next fetchFromApi.
SleepEnds ==
  /\ output.pc = "sleep"
  /\ IF output.attempt + 1 <= input.maxRetries
     THEN output' = [output EXCEPT
                       !.pc = "fetch",
                       !.attempt = @ + 1,
                       !.events = Append(@, [kind |-> "attempt",
                                             attempt |-> output.attempt + 1,
                                             ms |-> 0])]
     ELSE output' = [output EXCEPT !.pc = "returned", !.attempt = @ + 1,
                                   !.result = "null"]
  /\ UNCHANGED <<input, runVars>>

NextRetry == FetchReturns \/ FetchThrows \/ SleepEnds

SpecRetry == InitRetry /\ [][NextRetry]_vars

\* Percentages from below every lower knot to above every upper knot, the
\* knots themselves and values between two whole percents.
RampValues == {IntNum(k) : k \in -12..32} \cup {Num(-1, 3), Num(11, 2), Num(49, 2)}

\* The input of computeCarlsonScore in which each of the four metrics is value.
RampInput(in, value) ==
  [revenueGrowth |-> in.stats, netIncomeGrowth |-> in.stats, epsGrowth |-> in.stats,
   roicPercent |-> value, latestFcf |-> in.latestFcf, fcfGrowthPercent |-> value,
   sharesChange3yPercent |-> value, operatingMarginPercent |-> value]

InitRamps ==
  /\ input \in [a : RampValues, b : RampValues, stats : GrowthCounts,
                latestFcf : {undefined, IntNum(-1), IntNum(0), IntNum(1)}]
  /\ output = <<>>
  /\ NotRunning

\* The additions of computeCarlsonScore for the metric value a, and for the
\* metric value b: output is the pair of the two lists of components.
CallScoreComponents ==
  /\ output = <<>>
  /\ output' = <<scoreComponents(RampInput(input, input.a)),
                 scoreComponents(RampInput(input, input.b))>>
  /\ UNCHANGED <<input, runVars>>

SpecRamps == InitRamps /\ [][CallScoreComponents]_vars

\* The longest list of raw fundamentals rows.
MaxRawRows == 2

\* Raw dates: absent; Date objects, one of them invalid; epoch numbers: 0,
\* NaN, seconds (1969, 2023, 2024 and just below 10^12), milliseconds (just
\* above 10^12, 2023, and beyond the range of dates); strings.
RawDates ==
  {DateValue("undefined", <<0>>, ""),
   DateValue("Date", <<170398>>, ""), DateValue("Date", NaN, ""),
   DateValue("number", <<0>>, ""), DateValue("number", NaN, ""),
   DateValue("number", <<-1>>, ""), DateValue("number", <<170>>, ""),
   DateValue("number", <<171>>, ""), DateValue("number", <<SecondsLimit - 1>>, ""),
   DateValue("number", <<SecondsLimit + 1>>, ""), DateValue("number", <<170398>>, ""),
   DateValue("number", <<MaxTime + 1>>, ""),
   DateValue("string", <<0>>, ""), DateValue("string", <<0>>, "2023-12-31"),
   DateValue("string", <<0>>, "2024-03-31T00:00:00.000Z"),
   DateValue("string", <<0>>, "n/a")}

RawFinancials(totalRevenue, operatingRevenue, netIncome, basicEPS) ==
  [totalRevenue |-> totalRevenue, operatingRevenue |-> operatingRevenue,
   netIncomeCommonStockholders |-> undefined, netIncome |-> netIncome,
   dilutedEPS |-> undefined, basicEPS |-> basicEPS, dilutedAverageShares |-> undefined]

\* The numeric fields of a raw row: none, none that is finite, and one or more.
RawFields ==
  {RawFinancials(undefined, undefined, undefined, undefined),
   RawFinancials(NaN, undefined, NaN, undefined),
   RawFinancials(undefined, IntNum(100), undefined, undefined),
   RawFinancials(NaN, undefined, undefined, Num(1, 2)),
   RawFinancials(IntNum(110), IntNum(100), IntNum(10), undefined)}

RawRows ==
  {[f \in DOMAIN fields \cup {"date"} |-> IF f = "date" THEN date ELSE fields[f]] :
     date \in RawDates, fields \in RawFields}

InitPoints ==
  /\ input \in SeriesOf(RawRows, MaxRawRows)
  /\ output = <<>>
  /\ NotRunning

\* output is <<points>>, the returned series in a list of one.
CallToAnnualFinancialPoints ==
  /\ output = <<>>
  /\ output' = <<toAnnualFinancialPoints(input)>>
  /\ UNCHANGED <<input, runVars>>

SpecPoints == InitPoints /\ [][CallToAnnualFinancialPoints]_vars

\* The last balance-sheet row of the inputs of computeRoicPercent: each field
\* absent or present, the lease-adjusted debt also present as 0.
LatestBalances ==
  [stockholdersEquity : {undefined, IntNum(10), IntNum(100)},
   longTermDebtAndCapitalLeaseObligation : {undefined, IntNum(0), IntNum(40)},
   longTermDebt : {undefined, IntNum(30)},
   totalDebt : {undefined, IntNum(20)},
   cashCashEquivalentsAndShortTermInvestments : {undefined, IntNum(50)},
   cashAndCashEquivalents : {undefined, IntNum(25)}]

\* An earlier row, which computeRoicPercent does not read.
EarlierBalance == BalanceSheet(IntNum(7), IntNum(3), IntNum(1))

NetIncomeOnly(netIncome) == [EmptyStatement EXCEPT !.netIncome = netIncome]

InitRoic ==
  /\ input \in
       [annualBalanceSheet :
          {<<>>} \cup {<<b>> : b \in LatestBalances}
                 \cup {<<EarlierBalance, b>> : b \in LatestBalances},
        annualFinancials :
          {<<>>, <<NetIncomeOnly(undefined)>>, <<NetIncomeOnly(IntNum(12))>>,
           <<NetIncomeOnly(IntNum(5)), NetIncomeOnly(IntNum(-12))>>,
           <<NetIncomeOnly(IntNum(5)), NetIncomeOnly(undefined)>>}]
  /\ output = <<>>
  /\ NotRunning

\* output is <<roicPercent>>, the returned value in a list of one.
CallComputeRoicPercent ==
  /\ output = <<>>
  /\ output' = <<computeRoicPercent(input)>>
  /\ UNCHANGED <<input, runVars>>

SpecRoic == InitRoic /\ [][CallComputeRoicPercent]_vars

\* The longest list of annual statements given to computeSharesChange3y.
MaxAnnualRows == 4

\* n quarters whose share count starts at 100 and changes by step a quarter.
\* Quarter hole, if there is one, reports no count at all; when issued is
\* TRUE the even quarters report shareIssued and not ordinarySharesNumber.
Quarters(n, step, hole, issued) ==
  [i \in 1..n |->
     LET count == IF i = hole THEN undefined ELSE IntNum(100 + step * (i - 1))
     IN IF issued /\ i % 2 = 0
        THEN [ordinarySharesNumber |-> undefined, shareIssued |-> count]
        ELSE [ordinarySharesNumber |-> count,
              shareIssued |-> IF i = hole THEN undefined ELSE IntNum(1)]]

QuarterlyLists ==
  {Quarters(n, step, hole, issued) :
     n \in {0, 12, 13, 14}, step \in {-1, 0, 2}, hole \in {0, 1, 2, 14},
     issued \in BOOLEAN}

SharesOnly(shares) == [EmptyStatement EXCEPT !.dilutedAverageShares = shares]

AnnualShareLists ==
  {[i \in DOMAIN list |-> SharesOnly(list[i])] :
     list \in SeriesOf({undefined, IntNum(0), IntNum(90), IntNum(100), IntNum(120)},
                       MaxAnnualRows)}

InitShares ==
  /\ input \in [quarterlyShares : QuarterlyLists, annualFinancials : AnnualShareLists]
  /\ output = <<>>
  /\ NotRunning

\* output is <<sharesChange3yPercent>>, the returned value in a list of one.
CallComputeSharesChange3y ==
  /\ output = <<>>
  /\ output' = <<computeSharesChange3y(input)>>
  /\ UNCHANGED <<input, runVars>>

SpecShares == InitShares /\ [][CallComputeSharesChange3y]_vars

\* The longest FCF series of the availability states of computeDcf.
MaxDcfPoints == 3

\* A quarter of quarterlyShares.
Quarter(ordinarySharesNumber, shareIssued) ==
  [ordinarySharesNumber |-> ordinarySharesNumber, shareIssued |-> shareIssued]

\* The share counts and the price of a snapshot: absent, 0 and positive; the
\* latest quarter with one count, with both and with none.
ShareSnapshots ==
  [sharesOutstanding : {undefined, IntNum(0), IntNum(10)},
   quarterlyShares :
     {<<>>, <<Quarter(undefined, IntNum(8))>>, <<Quarter(IntNum(6), IntNum(8))>>,
      <<Quarter(IntNum(6), IntNum(8)), Quarter(undefined, undefined)>>,
      <<Quarter(IntNum(6), undefined), Quarter(IntNum(0), IntNum(8))>>},
   currentPrice : {undefined, IntNum(-5), IntNum(0), IntNum(5)}]

InitDcfShares ==
  /\ input \in [snapshot : ShareSnapshots,
                fcfSeries : SeriesOf({IntNum(-1), IntNum(0), IntNum(4), IntNum(6)},
                                     MaxDcfPoints)]
  /\ output = <<>>
  /\ NotRunning

SpecDcfShares == InitDcfShares /\ [][CallComputeDcf]_vars

--------------------------------------------------------------------------
\* Properties

\* Callbacks that have started and not completed.
InFlight == {i \in Slots : cb[i].pc \notin {"idle", "done", "threw"}}

\* The callback of index i has completed with a snapshot (cached or fetched).
Obtained(i) == cb[i].pc = "done" /\ (cb[i].lookup = "hit" \/ cb[i].fetched = "snapshot")

\* C1: mapWithConcurrency invokes the callback exactly once for each index
\* 0..N-1, with the item stored at that index, and never for an index
\* outside that range: no index is invoked twice at any time whatever the
\* interleaving of the runners, index N is never invoked, and when the pool's
\* promise is fulfilled every index has been invoked.
C1_ExactlyOncePerIndex ==
  /\ \A i \in Slots : cb[i].calls <= 1
  /\ cb[N].calls = 0
  /\ \A i \in 0..(N - 1) : cb[i].calls = 1 => cb[i].item = items[i + 1]
  /\ \A i \in 0..(N - 1) : i < nextIndex <=> cb[i].calls = 1
  /\ pool = "fulfilled" => \A i \in 0..(N - 1) : cb[i].calls = 1

C1_Witness ==
  /\ phase = "returned"
  /\ N = MaxTickers
  /\ concurrency = MaxConcurrency
  /\ \A i \in 0..(N - 1) : cb[i].calls = 1 /\ cb[i].item = items[i + 1]

\* C2: with no callback throwing, the promise of mapWithConcurrency is
\* fulfilled only after the callback of every index has completed, and the
\* sort of runCompoundingMachine never runs while a callback is in flight.
C2_ResolvesAfterAllCallbacks ==
  /\ pool = "fulfilled" => \A i \in 0..(N - 1) : cb[i].pc = "done"
  /\ phase = "returned" => InFlight = {}

C2_Witness ==
  /\ pool = "fulfilled"
  /\ phase = "returned"
  /\ N = MaxTickers
  /\ concurrency = MaxConcurrency
  /\ Len(rows) >= 2

\* C3: at most max(1, W) callbacks are in flight at any time, and a runner
\* claims a new index only after the callback it claimed before has
\* completed: every callback in flight is the current one of its own runner.
C3_BoundedInFlight ==
  /\ Cardinality(InFlight) <= safeConcurrency
  /\ \A i \in InFlight : \E r \in Runners : runner[r].pc = "await" /\ runner[r].cur = i
  /\ \A r1, r2 \in Runners :
       (r1 # r2 /\ runner[r1].pc = "await" /\ runner[r2].pc = "await")
         => runner[r1].cur # runner[r2].cur

C3_Witness ==
  /\ concurrency = MaxConcurrency
  /\ Cardinality(InFlight) = MaxConcurrency
  /\ nextIndex = MaxTickers

\* C4: fetchWithRetry never raises; it makes at most maxRetries + 1 attempts,
\* returns the snapshot of the first attempt that succeeds without a further
\* attempt, and returns null exactly when all maxRetries + 1 attempts failed.
C4_RetryBounded ==
  \A i \in Slots :
    /\ cb[i].tries <= maxRetries + 1
    /\ cb[i].fails <= cb[i].tries
    /\ (cb[i].pc \in {"set", "eval"} /\ cb[i].fetched = "snapshot")
         => cb[i].tries = cb[i].fails + 1
    /\ cb[i].pc = "skip"
         => cb[i].fetched = "null" /\ cb[i].fails = maxRetries + 1
            /\ cb[i].tries = maxRetries + 1
    /\ cb[i].fails = maxRetries + 1 => cb[i].fetched = "null" /\ cb[i].pc = "skip"
    /\ cb[i].fetched = "null" => cb[i].pc \in {"skip", "done"}
    /\ cb[i].pc = "threw" => cb[i].tries = 0 /\ cb[i].fetched = "none"

C4_Witness ==
  /\ maxRetries = DefaultMaxRetries
  /\ \E i, j \in Slots :
       /\ cb[i].pc = "skip" /\ cb[i].fails = DefaultMaxRetries + 1
       /\ cb[j].pc = "done" /\ cb[j].fetched = "snapshot"

\* C5: a ticker whose fetch returned null is skipped: it adds no row and no
\* diagnostics entry and does not fail its runner, and every other ticker is
\* fetched, evaluated and reported as if the failed one were not in the list.
C5_SoftFailureSkipped ==
  /\ \A i \in Slots : cb[i].fetched = "null" => cb[i].pc \in {"skip", "done"}
  /\ \A r \in Runners :
       runner[r].pc = "failed" => cb[runner[r].cur].fetched # "null"
  /\ \A t \in Tickers :
       /\ Cardinality({k \in 1..Len(rows) : rows[k].ticker = t})
            = Cardinality({i \in 0..(N - 1) : Obtained(i) /\ items[i + 1] = t /\ Passes(t)})
       /\ showDiag =>
            Cardinality({k \in 1..Len(diagnostics) : diagnostics[k].row.ticker = t})
              = Cardinality({i \in 0..(N - 1) : Obtained(i) /\ items[i + 1] = t})
  /\ pool = "fulfilled" =>
       \A i \in 0..(N - 1) : cb[i].pc = "done" /\ (cb[i].fetched = "null" \/ Obtained(i))

C5_Witness ==
  /\ phase = "returned"
  /\ \E i, j \in 0..(N - 1) :
       /\ i < j
       /\ cb[i].fetched = "null"
       /\ cb[j].fetched = "snapshot"
       /\ \E k \in 1..Len(rows) : rows[k].ticker = items[j + 1]
       /\ Len(diagnostics) = Cardinality({m \in 0..(N - 1) : Obtained(m)})

\* C6: a cache lookup yields the stored snapshot if and only if a record for
\* the ticker exists, its schema version is the current one and
\* now - fetchedAt <= ttl; with no record, with another schema version or
\* with now - fetchedAt > ttl the lookup is treated as absent.
C6_LookupHitIffFresh ==
  [][\A i \in Slots :
       (cb[i].pc = "get" /\ cb'[i].pc # "get") =>
         LET t == cb[i].item
         IN /\ cb'[i].lookup = "hit"
                 <=> (dbOpen /\ db[t].kind = "ok" /\ now - db[t].at <= TtlMs)
            /\ cb'[i].lookup = "hit"
                 => cb'[i].snap = [ticker |-> t, schemaVersion |-> CurrentSchema,
                                   by |-> db[t].by]
            /\ (~dbOpen \/ db[t].kind \in {"none", "old"} \/ now - db[t].at > TtlMs)
                 => cb'[i].lookup = "miss"]_vars

C6_Witness ==
  /\ dbOpen
  /\ \E i, j \in Slots :
       /\ cb[i].pc = "eval" /\ cb[i].lookup = "hit"
       /\ now - db[cb[i].item].at = TtlMs
       /\ cb[j].pc = "done" /\ cb[j].lookup = "miss" /\ cb[j].fetched = "null"
       /\ db[cb[j].item].kind = "old"

\* C7: an error of the cache layer during a lookup never raises: the lookup
\* ends as a miss and no callback, and so no run, fails because of it.
C7_LookupErrorIsMiss ==
  /\ \A i \in Slots : cb[i].lookup # "threw" /\ cb[i].pc # "threw"
  /\ phase # "exited"

\* C8: the writes of concurrent cache.set calls are serialized: every
\* rewrite of the backing file is the complete table, with the complete
\* record of every set executed before it, and the file holds for each
\* ticker the record written last.
C8_WritesSerialized ==
  /\ (dbOpen /\ saves > 0) => file = db
  /\ \A t \in Tickers : lastSet[t] # NoRecord => file[t] = lastSet[t]
  /\ \A t \in Tickers : file[t].by >= 0 => file[t].kind = "ok" /\ file[t].at <= now

C8_Witness ==
  /\ concurrency >= 2
  /\ N = 2
  /\ saves >= 2
  /\ file["A"].by >= 0
  /\ file["B"].by >= 0
  /\ file["A"].by # file["B"].by

\* C9: fetchTickerSnapshot fetches from upstream only when the lookup was
\* absent; a fetched snapshot is in the cache, under the current time and in
\* place of any earlier record of the ticker, when fetchTickerSnapshot
\* returns; the table changes in no other way during the pool, so a fetch
\* that returned null leaves every record as it was.
C9_FetchOnMissAndWrite ==
  /\ [](\A i \in Slots :
          /\ (cb[i].tries > 0 \/ cb[i].fetched # "none") => cb[i].lookup = "miss"
          /\ (cb[i].pc = "eval" /\ cb[i].fetched = "snapshot")
               => /\ db[cb[i].item] = [kind |-> "ok", at |-> now, by |-> i]
                  /\ file[cb[i].item] = db[cb[i].item])
  /\ [][(db' # db /\ phase' = "pool" /\ initialized) =>
          \E i \in Slots :
            /\ cb[i].pc = "set" /\ cb'[i].pc = "eval" /\ cb[i].fetched = "snapshot"
            /\ \A t \in Tickers \ {cb[i].item} : db'[t] = db[t]]_vars

C9_Witness ==
  /\ now > StartNow
  /\ \E i, j \in Slots :
       /\ cb[i].pc = "eval" /\ cb[i].fetched = "snapshot" /\ db[cb[i].item].at = now
       /\ cb[j].pc = "done" /\ cb[j].fetched = "null"
       /\ db[cb[j].item] = [kind |-> "ok", at |-> StartNow - TtlMs - 1, by |-> -1]

\* C10: the pre-request delay elapses before any upstream request of the
\* ticker is issued: while sleep(requestDelayMs) is pending, no request of
\* that attempt is in flight.
C10_DelayBeforeRequests ==
  \A i \in Slots : cb[i].pc = "delay" => ~cb[i].inflight

\* C11: evaluateCarlsonFilters reports pass exactly when all five criteria
\* hold; the ROIC and the operating-margin criterion are strict (a value equal
\* to the configured minimum fails) and the buyback criterion is not (a
\* share change equal to -|minBuybackPercent| passes, for either sign of the
\* option).
C11_FiltersPassIffAllFive ==
  output # <<>> =>
    LET row == input.row
        options == input.options
        above(x, min) == x # <<>> /\ x[1] * min[2] > min[1] * x[2]
        equal(x, min) == x # <<>> /\ x[1] * min[2] = min[1] * x[2]
        floor == IF options.minBuybackPercent[1] < 0
                 THEN options.minBuybackPercent
                 ELSE <<-options.minBuybackPercent[1], options.minBuybackPercent[2]>>
    IN /\ output.pass <=> (/\ output.revenuePass /\ output.netIncomePass
                           /\ output.roicPass /\ output.buybackPass /\ output.marginPass)
       /\ output.roicPass <=> above(row.roicPercent, options.minRoic)
       /\ output.marginPass <=> above(row.operatingMarginPercent, options.minOperatingMargin)
       /\ output.buybackPass <=>
            (row.sharesChange3yPercent # <<>> /\ ~above(row.sharesChange3yPercent, floor))
       /\ equal(row.roicPercent, options.minRoic) => ~output.roicPass /\ ~output.pass
       /\ equal(row.operatingMarginPercent, options.minOperatingMargin)
            => ~output.marginPass /\ ~output.pass
       /\ equal(row.sharesChange3yPercent, floor) => output.buybackPass

C11_Witness ==
  /\ output # <<>>
  /\ output.pass
  /\ input.options.minBuybackPercent[1] < 0
  /\ input.row.sharesChange3yPercent = input.options.minBuybackPercent
  /\ input.row.roicPercent = <<2 * DefaultMinRoic + 1, 2>>

C16_GrowthStats ==
  output # <<>> =>
    LET n == Len(input)
        rises == {i \in 1..(n - 1) : input[i][1] * input[i + 1][2] < input[i + 1][1] * input[i][2]}
    IN IF n < 2
       THEN output = [positiveCount |-> 0, intervals |-> 0, cagrPercent |-> <<>>]
       ELSE /\ output.intervals = n - 1
            /\ output.positiveCount = Cardinality(rises)
            /\ output.positiveCount \in 0..output.intervals
            /\ rises = 1..(n - 1) => output.positiveCount = n - 1
            /\ output.cagrPercent # <<>> <=> (input[1][1] > 0 /\ input[n][1] > 0)

C16_Witness ==
  /\ output # <<>>
  /\ Len(input) = 4
  /\ output.positiveCount = 1
  /\ output.cagrPercent = <<25, 1>>
  /\ \E i \in 1..(Len(input) - 1) : input[i] = input[i + 1]

\* C17: dedupeByDate is idempotent, and for every input its output has
\* pairwise distinct dates, is sorted ascending by date, contains exactly the
\* dates of the input, and holds for each date the last input row with it.
C17_DedupeByDate ==
  output # <<>> =>
    LET once == output[1]
        lastOf(d) == input[CHOOSE i \in 1..Len(input) :
                             /\ input[i].date = d
                             /\ \A j \in (i + 1)..Len(input) : input[j].date # d]
    IN /\ \A k \in 1..(Len(once) - 1) : once[k].date < once[k + 1].date
       /\ {once[k].date : k \in 1..Len(once)} = {input[i].date : i \in 1..Len(input)}
       /\ \A k \in 1..Len(once) : once[k] = lastOf(once[k].date)
       /\ Len(output) = 2 => output[2] = once

C17_Witness ==
  /\ Len(output) = 2
  /\ Len(input) = 4
  /\ Len(output[1]) = 2
  /\ input[1].date > input[2].date
  /\ input[3].date = input[1].date /\ input[3].value # input[1].value
  /\ input[4].date = input[2].date /\ input[4].value # input[2].value

\* C18: in computeAnnualFcfSeries a row with an explicit free cash flow
\* contributes that value; a row without one contributes operatingCashFlow +
\* capex when capex is negative and operatingCashFlow - capex when it is
\* positive or zero (200 with -50 and 200 with +50 both give 150); a row
\* with neither contributes nothing; the output keeps the order of the rows.
C18_FcfSeries ==
  output # <<>> =>
    LET list == input.annualCashFlow
        values == output[1]
        derivable(row) == row.operatingCashFlow # <<>> /\ row.capitalExpenditure # <<>>
        contributes(row) == row.freeCashFlow # <<>> \/ derivable(row)
        outflow(row) == IF row.capitalExpenditure[1] < 0
                        THEN -row.capitalExpenditure[1]
                        ELSE row.capitalExpenditure[1]
        value(row) == IF row.freeCashFlow # <<>> THEN row.freeCashFlow
                      ELSE <<row.operatingCashFlow[1] - outflow(row), 1>>
        position(i) == Cardinality({j \in 1..i : contributes(list[j])})
    IN /\ Len(values) = position(Len(list))
       /\ \A i \in 1..Len(list) :
            contributes(list[i]) => values[position(i)] = value(list[i])

C18_Witness ==
  /\ output = <<<<IntNum(150), IntNum(120), IntNum(150)>>>>
  /\ input.annualCashFlow[1].capitalExpenditure = IntNum(-50)
  /\ input.annualCashFlow[2].capitalExpenditure = undefined
  /\ input.annualCashFlow[3].capitalExpenditure = IntNum(50)

C15_ScoreRange ==
  output # <<>> =>
    LET parts == scoreComponents(input)
        maxima == <<20, 20, 10, 20, 5, 5, 10, 10>>
        sum == Sum(parts)
        score == output[1]
    IN /\ score \in 1..100
       /\ Len(parts) = Len(maxima)
       /\ \A k \in 1..Len(parts) :
            parts[k][1] >= 0 /\ parts[k][1] <= maxima[k] * parts[k][2]
       /\ sum[1] <= 100 * sum[2]
       /\ 2 * sum[1] < sum[2] => score = 1
       /\ 2 * sum[1] >= sum[2] =>
            /\ 2 * (score * sum[2] - sum[1]) <= sum[2]
            /\ 2 * (sum[1] - score * sum[2]) < sum[2]

C15_Witness ==
  /\ output = <<1>>
  /\ input.roicPercent = IntNum(-10)
  /\ input.sharesChange3yPercent = Num(-1, 3)
  /\ input.revenueGrowth.intervals = 3

\* C13: for the snapshot with annual revenue 100, 110, 121, 133 and net
\* income 10, -5, 12, 15, buildRow yields revenueGrowth {positiveCount 3,
\* intervals 3} and netIncomeGrowth {positiveCount 2, intervals 3}, the
\* required count of both growth criteria is 3 of 3, and the net-income
\* criterion of evaluateCarlsonFilters fails because 2 < 3.
C13_DipScenario ==
  (Len(output) = 2 /\ input.snapshot.annualFinancials = DipStatements) =>
    LET row == output[1]
        evaluation == output[2]
    IN /\ row.revenueGrowth.positiveCount = 3 /\ row.revenueGrowth.intervals = 3
       /\ row.netIncomeGrowth.positiveCount = 2 /\ row.netIncomeGrowth.intervals = 3
       /\ evaluation.revenueRequired = 3
       /\ evaluation.netIncomeRequired = 3
       /\ ~evaluation.netIncomePass

\* The composite score of a row whose undefined metrics are left out of the
\* sum altogether.
ScoreOfDefined(row) ==
  LET sum ==
        Sum(<<normalizedGrowthScore(row.revenueGrowth, 20),
              normalizedGrowthScore(row.netIncomeGrowth, 20),
              normalizedGrowthScore(row.epsGrowth, 10),
              fcfPositiveScore(row.latestFcf)>>
            \o (IF Defined(row.roicPercent) THEN <<roicScore(row.roicPercent)>> ELSE <<>>)
            \o (IF Defined(row.fcfGrowthPercent)
                THEN <<fcfGrowthScore(row.fcfGrowthPercent)>> ELSE <<>>)
            \o (IF Defined(row.sharesChange3yPercent)
                THEN <<buybackScore(row.sharesChange3yPercent)>> ELSE <<>>)
            \o (IF Defined(row.operatingMarginPercent)
                THEN <<marginScore(row.operatingMarginPercent)>> ELSE <<>>))
      rounded == MathRound(sum[1], sum[2])
  IN IF rounded < 1 THEN 1 ELSE IF rounded > 100 THEN 100 ELSE rounded

\* C14: data insufficiency never raises.  For every snapshot, those whose
\* series are empty or whose fields are absent included, buildRow returns a
\* row and evaluateCarlsonFilters an evaluation, with no exception; an
\* undefined ROIC, FCF growth, 3-year share change or operating margin adds
\* exactly 0 to the composite score; and the ROIC, buyback and margin
\* criteria fail, and with them the row, when their value is undefined.
C14_InsufficiencyNeverRaises ==
  /\ Len(output) >= 1 =>
       /\ ~IsException(output[1])
       /\ output[1].carlsonQualityScore = ScoreOfDefined(output[1])
       /\ ENABLED CallEvaluateRow \/ Len(output) = 2
  /\ Len(output) = 2 =>
       LET row == output[1]
           evaluation == output[2]
       IN /\ row.roicPercent = undefined => ~evaluation.roicPass /\ ~evaluation.pass
          /\ row.sharesChange3yPercent = undefined =>
               ~evaluation.buybackPass /\ ~evaluation.pass
          /\ row.operatingMarginPercent = undefined =>
               ~evaluation.marginPass /\ ~evaluation.pass

\* A snapshot with no statement at all went through both functions: every
\* metric is undefined, the score is the minimum and no criterion passes.
C14_Witness ==
  /\ Len(output) = 2
  /\ input.snapshot.annualFinancials = <<>>
  /\ input.snapshot.annualBalanceSheet = <<>>
  /\ input.snapshot.annualCashFlow = <<>>
  /\ input.snapshot.quarterlyShares = <<>>
  /\ input.snapshot.operatingMargins = undefined
  /\ output[1].roicPercent = undefined
  /\ output[1].fcfGrowthPercent = undefined
  /\ output[1].sharesChange3yPercent = undefined
  /\ output[1].operatingMarginPercent = undefined
  /\ output[1].carlsonQualityScore = 1
  /\ ~output[2].pass

\* How many times x occurs in the list.
Count(list, x) == Cardinality({k \in DOMAIN list : list[k] = x})

\* C20: after the pool completes, the results are the passing rows sorted by
\* composite score in non-increasing order and cut to the first topN: the
\* returned rows are passing rows, none has a lower score than a passing row
\* that was left out, there are min(topN, number of passing rows) of them,
\* qualified is the number of all passing rows and scanned the length of the
\* ticker list.
C20_TopRows ==
  [][phase' = "returned" =>
       LET passing == rows
           every == {passing[k] : k \in DOMAIN passing}
           leftOut == {x \in every : Count(passing, x) > Count(results', x)}
       IN /\ \A k \in 1..(Len(results') - 1) :
               results'[k].carlsonQualityScore >= results'[k + 1].carlsonQualityScore
          /\ \A k \in DOMAIN results' :
               /\ results'[k] \in every
               /\ Count(results', results'[k]) <= Count(passing, results'[k])
               /\ \A x \in leftOut :
                    results'[k].carlsonQualityScore >= x.carlsonQualityScore
          /\ Len(results') = (IF topN < Len(passing) THEN topN ELSE Len(passing))
          /\ qualified' = Len(passing)
          /\ scanned' = Len(items)]_vars

\* Three tickers were scanned, the passing rows arrived with the lower score
\* first, and the report keeps the two best of them.
C20_Witness ==
  /\ phase = "returned"
  /\ scanned = 3
  /\ qualified = 3
  /\ topN = 2
  /\ Len(results) = 2
  /\ items[1] # items[3]
  /\ results[1].ticker = items[3]
  /\ results[1].carlsonQualityScore > results[2].carlsonQualityScore

\* The indices whose callback completed with a snapshot.
ObtainedIndices == {i \in 0..(N - 1) : Obtained(i)}

\* C21: the result collections lose no append, whatever the interleaving of
\* the workers.  At every moment, and so once the pool has completed, rows
\* holds as many rows as there are indices whose snapshot was obtained and
\* passed the filters, ticker by ticker, and diagnostics holds as many
\* entries as there are indices whose snapshot was obtained, ticker by
\* ticker and with the verdict of each.
C21_NoLostAppend ==
  /\ Len(rows) = Cardinality({i \in ObtainedIndices : Passes(items[i + 1])})
  /\ showDiag => Len(diagnostics) = Cardinality(ObtainedIndices)
  /\ pool = "fulfilled" =>
       \A t \in Tickers :
         LET indices == {i \in ObtainedIndices : items[i + 1] = t}
         IN /\ Cardinality({k \in DOMAIN rows : rows[k] = Row([ticker |-> t])})
                 = (IF Passes(t) THEN Cardinality(indices) ELSE 0)
            /\ showDiag =>
                 Cardinality({k \in DOMAIN diagnostics :
                                diagnostics[k] = [row |-> Row([ticker |-> t]),
                                                  pass |-> Passes(t)]})
                   = Cardinality(indices)

\* Two workers went through three tickers; the second ticker was evaluated
\* before the first, and both collections hold every entry.
C21_Witness ==
  /\ pool = "fulfilled"
  /\ concurrency = 2
  /\ N = 3
  /\ Len(rows) = 2
  /\ Len(diagnostics) = 3
  /\ items[1] = "A"
  /\ items[2] = "B"
  /\ diagnostics[1].row.ticker = "B"

\* C22: in fetchWithRetry the sleep that follows failed attempt i lasts
\* between baseDelay * 2^i and baseDelay * 2^i + jitterMax milliseconds, with
\* baseDelay = requestDelayMs and jitterMax = 250; exactly one sleep lies
\* between two consecutive attempts, and no sleep follows the final failed
\* attempt.
C22_Backoff ==
  LET events == output.events
  IN /\ \A k \in DOMAIN events :
          /\ events[k].kind = (IF k % 2 = 1 THEN "attempt" ELSE "sleep")
          /\ events[k].attempt = (k - 1) \div 2
          /\ events[k].kind = "sleep" =>
               /\ events[k].ms >= input.requestDelayMs * IntPow(2, events[k].attempt)
               /\ events[k].ms
                    <= input.requestDelayMs * IntPow(2, events[k].attempt) + JitterMax
               /\ events[k].attempt < input.maxRetries
     /\ output.pc = "sleep" <=> events[Len(events)].kind = "sleep"
     /\ output.result = "null" =>
          /\ events[Len(events)] = [kind |-> "attempt", attempt |-> input.maxRetries,
                                    ms |-> 0]
          /\ Len(events) = 2 * input.maxRetries + 1

\* Every attempt failed: four sleeps, the last one of the longest duration
\* the rounding allows, and none after the fifth attempt.
C22_Witness ==
  /\ output.result = "null"
  /\ Len(output.events) = 2 * DefaultMaxRetries + 1
  /\ output.events[2].ms = DefaultRequestDelayMs
  /\ output.events[4].ms = 2 * DefaultRequestDelayMs + 1
  /\ output.events[8].ms = 8 * DefaultRequestDelayMs + JitterMax

\* A ramp between two knots: 0 at or below the lower knot, the maximum at or
\* above the upper knot, and no smaller for b than for a when a <= b.
IsRamp(a, b, fa, fb, lower, upper, maximum) ==
  /\ LessEq(a, IntNum(lower)) => fa = IntNum(0)
  /\ LessEq(IntNum(upper), a) => fa = IntNum(maximum)
  /\ LessEq(IntNum(0), fa) /\ LessEq(fa, IntNum(maximum))
  /\ LessEq(a, b) => LessEq(fa, fb)

\* C23: each ramp component of the composite score is 0 at or below its
\* lower knot, its maximum at or above its upper knot and non-decreasing in
\* between: ROIC from 5% to 25% (20 points), FCF growth from -5% to 15% (5
\* points), buyback from 0% to 8% shrink (10 points, 0 for any increase of
\* the share count), operating margin from 10% to 30% (10 points); the
\* FCF-positivity component is 5 exactly when the latest FCF is above 0; and
\* each growth component is positiveCount / intervals times its weight (20,
\* 20, 10), 0 when intervals = 0.
C23_Ramps ==
  output # <<>> =>
    LET a == input.a
        b == input.b
        fa == output[1]
        fb == output[2]
        weights == <<20, 20, 10>>
    IN /\ IsRamp(a, b, fa[4], fb[4], 5, 25, 20)
       /\ IsRamp(a, b, fa[6], fb[6], -5, 15, 5)
       /\ IsRamp(Negate(a), Negate(b), fa[7], fb[7], 0, 8, 10)
       /\ IsRamp(a, b, fa[8], fb[8], 10, 30, 10)
       /\ fa[5] = (IF input.latestFcf # undefined /\ Less(IntNum(0), input.latestFcf)
                   THEN IntNum(5) ELSE IntNum(0))
       /\ \A k \in 1..3 :
            fa[k] = (IF input.stats.intervals = 0 THEN IntNum(0)
                     ELSE Num(input.stats.positiveCount * weights[k],
                              input.stats.intervals))

\* Inside every ramp but that of the buyback: a value of 11% scores less than
\* a value of 14%, and the growth components are at three fifths.
C23_Witness ==
  /\ output # <<>>
  /\ input.a = IntNum(11)
  /\ input.b = IntNum(14)
  /\ output[1][4] = IntNum(6)
  /\ output[2][4] = IntNum(9)
  /\ output[1][8] = Num(1, 2)
  /\ output[2][6] = Num(19, 4)
  /\ output[1][7] = IntNum(0)
  /\ input.stats = [positiveCount |-> 3, intervals |-> 5]
  /\ output[1][1] = IntNum(12)

\* The time a raw date stands for: that of a valid date object, of an epoch
\* number, in seconds below 10^12 and in milliseconds above, or of a string
\* that can be parsed; NaN when there is none.
TimeOf(value) ==
  CASE value.type = "Date" -> value.number
    [] value.type = "number" ->
         IF value.number = NaN THEN NaN
         ELSE IF value.number[1] < SecondsLimit THEN TimeClip(value.number[1] * 1000)
         ELSE TimeClip(value.number[1])
    [] value.type = "string" -> DateParse(value.text)
    [] OTHER -> NaN

\* One numeric field of the financials series at least is a finite number.
SomeFinite(row) == \E f \in DOMAIN row \ {"date"} : row[f] \notin {undefined, NaN}

\* C24: a raw fundamentals row is kept in the normalized series if and only
\* if its date is valid (a valid date object, an epoch number in seconds or
\* in milliseconds, or a string that can be parsed) and one numeric field of
\* the series at least is a finite number; an epoch number below 10^12 is
\* read as seconds and a larger one as milliseconds.  The days of the series
\* are those of the rows to keep.
C24_KeptIffValid ==
  output # <<>> =>
    {output[1][k].date : k \in DOMAIN output[1]}
      = {ISODay(TimeOf(input[k].date)[1]) :
           k \in {j \in DOMAIN input : TimeOf(input[j].date) # NaN /\ SomeFinite(input[j])}}

\* C25: computeRoicPercent reads the last balance-sheet row and the last
\* financials row.  Debt is the first present of lease-adjusted long-term
\* debt, long-term debt and total debt, else 0; cash is the first present of
\* cash plus short-term investments and cash, else 0.  The result is
\* undefined exactly when there is no balance-sheet row, the latest net
\* income is absent, equity is absent or equity + debt - cash <= 0, and is
\* latestNetIncome / (equity + debt - cash) * 100 otherwise.
C25_Roic ==
  output # <<>> =>
    LET sheets == input.annualBalanceSheet
        statements == input.annualFinancials
        balance == sheets[Len(sheets)]
        netIncome == IF statements = <<>> THEN undefined
                     ELSE statements[Len(statements)].netIncome
        debt == IF balance.longTermDebtAndCapitalLeaseObligation # undefined
                THEN balance.longTermDebtAndCapitalLeaseObligation
                ELSE IF balance.longTermDebt # undefined THEN balance.longTermDebt
                ELSE IF balance.totalDebt # undefined THEN balance.totalDebt
                ELSE IntNum(0)
        cash == IF balance.cashCashEquivalentsAndShortTermInvestments # undefined
                THEN balance.cashCashEquivalentsAndShortTermInvestments
                ELSE IF balance.cashAndCashEquivalents # undefined
                THEN balance.cashAndCashEquivalents
                ELSE IntNum(0)
        capital == Minus(Plus(balance.stockholdersEquity, debt), cash)
        absent == \/ sheets = <<>>
                  \/ netIncome = undefined
                  \/ balance.stockholdersEquity = undefined
                  \/ capital[1] <= 0
    IN /\ output[1] # Thrown
       /\ output[1] = undefined <=> absent
       /\ ~absent => output[1] = Over(Times(netIncome, IntNum(100)), capital)

\* The lease-adjusted debt is present and 0: it is the debt, not the
\* long-term debt of 30, and with equity 100 and cash 50 the capital is 50.
C25_Witness ==
  /\ output = <<IntNum(-24)>>
  /\ Len(input.annualBalanceSheet) = 2
  /\ Len(input.annualFinancials) = 2
  /\ input.annualBalanceSheet[2].longTermDebtAndCapitalLeaseObligation = IntNum(0)
  /\ input.annualBalanceSheet[2].longTermDebt = IntNum(30)
  /\ input.annualBalanceSheet[2].cashCashEquivalentsAndShortTermInvestments = IntNum(50)
  /\ input.annualBalanceSheet[2].cashAndCashEquivalents = IntNum(25)

\* The share counts of a list that are present and above 0.
PositiveCounts(list) == SelectSeq(list, LAMBDA v : v # undefined /\ v[1] > 0)

\* C26: computeSharesChange3y compares, when 13 quarterly share counts at
\* least are available, the latest of them with the one 12 quarters earlier,
\* whatever the annual series; otherwise, when 4 annual diluted average
\* share counts at least are available, the latest of them with the one 3
\* years earlier; otherwise the result is undefined.  The result is
\* (latest / earlier - 1) * 100, negative exactly when the count shrank.
C26_SharesChange ==
  output # <<>> =>
    LET quarters == input.quarterlyShares
        quarterly ==
          PositiveCounts([i \in DOMAIN quarters |->
                            IF quarters[i].ordinarySharesNumber # undefined
                            THEN quarters[i].ordinarySharesNumber
                            ELSE quarters[i].shareIssued])
        annual ==
          PositiveCounts([i \in DOMAIN input.annualFinancials |->
                            input.annualFinancials[i].dilutedAverageShares])
        latest == IF Len(quarterly) >= 13 THEN quarterly[Len(quarterly)]
                  ELSE annual[Len(annual)]
        earlier == IF Len(quarterly) >= 13 THEN quarterly[Len(quarterly) - 12]
                   ELSE annual[Len(annual) - 3]
    IN IF Len(quarterly) < 13 /\ Len(annual) < 4
       THEN output[1] = undefined
       ELSE /\ output[1] = Num((latest[1] - earlier[1]) * 100, earlier[1])
            /\ output[1][1] < 0 <=> latest[1] < earlier[1]

\* Fourteen quarters of which the first reports no count: thirteen counts
\* from 102 to 126, and an annual series that shrank and is not looked at.
C26_Witness ==
  /\ output = <<Num(2400, 102)>>
  /\ Len(input.quarterlyShares) = 14
  /\ input.quarterlyShares[1].ordinarySharesNumber = undefined
  /\ input.quarterlyShares[2].ordinarySharesNumber = undefined
  /\ Len(input.annualFinancials) = 4
  /\ input.annualFinancials[1].dilutedAverageShares = IntNum(120)
  /\ input.annualFinancials[4].dilutedAverageShares = IntNum(90)

\* C27: computeDcf yields an intrinsic value per share if and only if the FCF
\* series has 2 points at least, the latest FCF is above 0 and a positive
\* share count is known, the share count being the reported shares
\* outstanding when present and otherwise the count of the latest quarter;
\* the upside is reported exactly when there is an intrinsic value and the
\* current price is known and above 0.
C27_DcfAvailable ==
  output # <<>> =>
    LET snapshot == input.snapshot
        series == input.fcfSeries
        quarters == snapshot.quarterlyShares
        quarter == quarters[Len(quarters)]
        shares == IF snapshot.sharesOutstanding # undefined
                  THEN snapshot.sharesOutstanding
                  ELSE IF quarters = <<>> THEN undefined
                  ELSE IF quarter.ordinarySharesNumber # undefined
                  THEN quarter.ordinarySharesNumber
                  ELSE quarter.shareIssued
        available == /\ Len(series) >= 2
                     /\ series[Len(series)][1] > 0
                     /\ shares # undefined
                     /\ shares[1] > 0
        priced == snapshot.currentPrice # undefined /\ snapshot.currentPrice[1] > 0
    IN /\ output.intrinsicValuePerShare # undefined <=> available
       /\ available =>
            /\ output.intrinsicValuePerShare[2] = series[Len(series)]
            /\ output.intrinsicValuePerShare[4] = shares
       /\ output.upsidePercent # undefined <=> (available /\ priced)
       /\ (available /\ priced) =>
            output.upsidePercent
              = <<"upside", output.intrinsicValuePerShare, snapshot.currentPrice>>

\* Both counts are known: the value per share is that of the 10 reported
\* shares, not of the 6 of the latest quarter, and the price gives an upside.
C27_Witness ==
  /\ output # <<>>
  /\ input.snapshot.sharesOutstanding = IntNum(10)
  /\ input.snapshot.quarterlyShares = <<Quarter(IntNum(6), IntNum(8))>>
  /\ input.snapshot.currentPrice = IntNum(5)
  /\ input.fcfSeries = <<IntNum(-1), IntNum(0), IntNum(6)>>
  /\ output.intrinsicValuePerShare = <<"dcf", IntNum(6), Num(4, 100), IntNum(10)>>
  /\ output.upsidePercent # undefined

\* C28: the cache is closed only after every worker callback that was
\* started has completed, when the pool completes normally and also when a
\* callback throws; and no cache get or set of a worker that is still
\* running is executed against a closed cache.
C28_CloseAfterCallbacks ==
  /\ [](phase = "closed" => InFlight = {})
  /\ [][\A i \in Slots :
          (cb[i].pc \in {"get", "set"} /\ cb'[i].pc # cb[i].pc) => dbOpen]_vars

--------------------------------------------------------------------------
\* runCompoundingMachine in a market where two tickers pass the filters with
\* the same composite score, and in the market of Init; topN is 1.

TiedMarket ==
  [A |-> [passed |-> TRUE, carlsonQualityScore |-> 60],
   B |-> [passed |-> TRUE, carlsonQualityScore |-> 60]]

InitMarkets ==
  /\ input \in {Market, TiedMarket}
  /\ output = <<>>
  /\ Setup(0..MaxTickers, 0..MaxConcurrency, PoolRecords, {MaxRetriesPool}, {TRUE}, {1})

SpecMarkets == InitMarkets /\ [][Next]_vars

\* The rows of the indices that obtained a snapshot and passed, in the order
\* of the ticker list.
RECURSIVE RowsInListOrder(_)
RowsInListOrder(n) ==
  IF n = 0 THEN <<>>
  ELSE RowsInListOrder(n - 1)
         \o (IF Obtained(n - 1) /\ Passes(items[n])
             THEN <<Row([ticker |-> items[n]])>> ELSE <<>>)

\* C29: for a fixed ticker list, fixed options and fixed per-ticker snapshot
\* outcomes the returned top-N list, its members and their order, is the same
\* for every interleaving of the workers and every concurrency level, rows of
\* equal composite score included: it is the list one runner produces, the
\* stable sort of the passing rows taken in list order, cut at topN.
C29_SameTopN ==
  phase = "returned" => results = Slice(SortRows(RowsInListOrder(N)), topN)

--------------------------------------------------------------------------
\* runCompoundingMachine with the scheduling the runtime provides.

\* A continuation whose awaited promise has settled is run by the event loop.
EventLoop ==
  \/ StartPool
  \/ InitDone
  \/ \E r \in Runners : RunnerStep(r)
  \/ \E r \in Runners : RunnerFail(r)
  \/ PoolSettle
  \/ \E i \in Slots : CacheGet(i)
  \/ \E i \in Slots : CacheSet(i)
  \/ \E i \in Slots : Evaluate(i)
  \/ \E i \in Slots : Skip(i)
  \/ Close
  \/ Finish

\* The event loop runs what is ready, an upstream request batch that is
\* awaited settles, and a sleep that is awaited elapses.
Fairness ==
  /\ WF_vars(EventLoop)
  /\ WF_vars(\E i \in Slots : UpstreamSettle(i))
  /\ WF_vars(\E i \in Slots : BackoffElapsed(i))

SpecLive == Init /\ [][Next]_vars /\ Fairness

\* C30: when every upstream request eventually settles the run terminates,
\* for every ticker list and every concurrency level: no callback makes more
\* than maxRetries + 1 attempts, the pool promise eventually settles, every
\* runner eventually leaves its loop (or the process has ended after a
\* rejection of the pool), and the run eventually returns or ends the process.
C30_Terminates ==
  /\ [](\A i \in Slots : cb[i].tries <= maxRetries + 1)
  /\ <>(pool \in {"fulfilled", "rejected"})
  /\ <>(phase = "exited" \/ \A r \in Runners : runner[r].pc \in {"done", "failed"})
  /\ <>(phase \in {"returned", "exited"})

\* Two runners have left their loops, the pool is fulfilled and the run has
\* returned, after a ticker used up maxRetries + 1 attempts.
C30_Witness ==
  /\ phase = "returned"
  /\ pool = "fulfilled"
  /\ concurrency = 2
  /\ N >= 2
  /\ \A r \in Runners : runner[r].pc = "done"
  /\ \E i \in Slots : cb[i].fetched = "null"


====
